---- MODULE Spec2Model ----
(***************************************************************************)
(* Verification model of local_scraper: the crawl-and-ingest workflow      *)
(* (workflow.py) over the announcement / run store (db.py).                *)
(*                                                                         *)
(* Spec      : two run_once invocations on one store, one after the other. *)
(* SpecRace  : two run_once invocations as concurrent processes, their     *)
(*             steps interleaved at the granularity of store transactions. *)
(* SpecCrawl : one invocation whose live crawl (_collect_list_items) is    *)
(*             followed page by page, over a site whose pages are chosen   *)
(*             by the environment at each fetch.                           *)
(* SpecCrawlFair : SpecCrawl with weak fairness of the run's steps.        *)
(*                                                                         *)
(* Failure sources are the collaborators that can fail: the fetcher        *)
(* (transport error), the summarizer backend, the notifier, and the store  *)
(* calls of the ingest loop.  init_schema, start_run and finish_run are    *)
(* taken to succeed.  The model of run_once starts at the store being      *)
(* opened (workflow.py:281).                                               *)
(***************************************************************************)
EXTENDS Integers, Sequences, FiniteSets, TLC

\* ------------------------------------------------------------------ bounds
\* longest filtered candidate list a run is given
MaxCandidates == 2

\* largest configured page budgets explored (0 exercises the clamp to 1)
MaxPagesTotalCfg == 3
MaxPagesPerCategoryCfg == 3
\* most links one page offers as category links
MaxLinks == 2
\* most items one page carries
MaxPageItems == 2
\* most inserts made through the handles of the store taken alone
MaxInserts == 3
\* the filter stage taken alone: latest day, longest list, longest lookback
MaxDay == 4
MaxNormalized == 2
MaxLookback == 3
\* largest retry_count of the HTTP client taken alone
MaxRetry == 3
\* longest list of raw dates of the date handling taken alone
MaxRawDates == 2
\* longest buffer of the digest taken alone
MaxBuffered == 21
\* last second of the clock of the task table taken alone
MaxClock == 2
\* most iterations of the loop followed for its delay, and the largest
\* configured delay (in whole seconds)
MaxThrottled == 4
MaxDelay == 2

\* ------------------------------------------------------- program constants
Sentinel == "AI_SUMMARY_FAILED"      \* the text "AI 总结失败"
NULL == "NULL"

Runs == {"r1", "r2"}
Strategies == {"title", "url", "title_date"}

Item(t, u, d) == [title |-> t, url |-> u, date |-> d]
\* Candidate universe: two items share a title, two share an url.
Items == {Item("T1", "U1", "D1"), Item("T1", "U2", "D2"), Item("T2", "U1", "D1")}

\* Sequences over S of length at most n without repeated entries.
InjSeqs(S, n) ==
    {q \in UNION {[1..k -> S] : k \in 0..n} :
        \A i, j \in DOMAIN q : i # j => q[i] # q[j]}

\* Filtered candidate lists: no two entries are the same (title, link, date).
CandidateLists == InjSeqs(Items, MaxCandidates)

Range(f) == {f[i] : i \in DOMAIN f}
Max(S) == CHOOSE x \in S : \A y \in S : y <= x
Min(S) == CHOOSE x \in S : \A y \in S : x <= y

VARIABLES
    \* ---- deployment configuration and the site (fixed by Init)
    overlap,            \* the invoking layer starts a run while another is active
    candidates,         \* the filtered candidate list a run obtains from the site
    feishu_enabled,     \* cfg.feishu_webhook_url is set
    feishu_notify_mode, \* cfg.feishu_notify_mode
    ai_enabled,         \* not cfg.ai_disabled (an AiClient exists in non-dry runs)
    \* ---- the store (one SQLite file shared by all runs)
    announcements,      \* set of rows of table announcements
    indexes,            \* strategies whose UNIQUE index exists on announcements
    runs_table,         \* run_id -> row of table runs
    \* ---- run_once, per invocation
    pc,                 \* control position
    cfg,                \* per-run configuration [dedupe_strategy, dry_run, max_items_per_run]
    filtered,           \* the run's filtered list
    idx,                \* enumerate index of the ingest loop
    total_processed, total_new, total_duplicate,
    item_errors,        \* list of non-fatal error kinds
    new_items,          \* digest buffer
    report,             \* the returned dict, or NoReport
    conn_open,          \* the run's store connection is open
    \* ---- history
    finish_calls,       \* number of finish_run calls made by the run
    outcome,            \* per processed candidate: how the loop classified it
    prior_done,         \* the runs that had ended when this one started
    notify_failed,      \* a notifier send of this run failed
    store_raised,       \* a store call of the run's ingest loop raised
    cards_sent,         \* history: the run has called feishu.send_card
    stubs_inserted,     \* history: the stub rows the run's inserts have added
    \* ---- _collect_list_items (live crawl)
    crawl_pc,           \* control position of the crawl
    cfg_max_pages_total,        \* cfg.max_pages_total
    cfg_max_pages_per_category, \* cfg.max_pages_per_category
    seen_pages,         \* set of URLs marked visited
    queue,              \* FIFO of category URLs
    url,                \* root of the branch being explored
    page_url,           \* page the pagination chain is at
    page_idx,           \* page_idx of the for loop
    page_turns,
    \* ---- history of the crawl
    chain_fetches,      \* get_text calls made by the current branch's pagination chain
    category_fetch_failed, \* a fetch of a category page raised during the crawl
    start_fetch_failed, \* the fetch of the start page raised
    \* ---- the items of the crawl
    use_test_fixtures,  \* cfg.use_test_fixtures
    track_raw,          \* the item lists of the pages are followed
    raw,                \* list of (title, link, date_raw) appended page by page
    collected_items,    \* ListCollectionResult.items
    parsed_ok,          \* history: the items parsed from pages fetched successfully
    failed_roots,       \* history: roots of the branches one of whose page fetches raised
    branches_explored,  \* history: the queue entries taken up as a branch
    track_calls,        \* model switch: the calls of http.get_text are counted
    get_text_calls,     \* history: the calls of http.get_text, by URL and purpose
    \* ---- the stop rule of one pagination turn, taken alone
    pg_zcpt_items,      \* dates of the page's zcpt_items
    pg_notices,         \* dates of the page's notices
    pg_earliest_keep,   \* earliest_keep
    pg_should_stop,     \* "none" before the rule ran, then "stop" (break) or "continue"
    \* ---- one Database handle on the store, taken alone
    db_strategy,        \* Database._dedupe_strategy of the open handle, or "closed"
    insert_log,         \* history: the inserts made, each with the result of
                        \* is_duplicate just before it and the insert's result
    \* ---- the filter stage of run_once, taken alone
    flt_normalized,     \* normalized: list of (title, canonical date as a day number)
    flt_today,          \* recent.today as a day number
    flt_fixtures,       \* cfg.use_test_fixtures
    flt_days_lookback,  \* cfg.days_lookback
    flt_filtered,       \* filtered, once the stage has run
    flt_prev,           \* history: filtered of the stage's previous pass
    flt_passes,         \* passes of the stage made so far
    \* ---- one call of HttpClient.get_text or HttpClient.post_json, taken alone
    http_fn,            \* "get_text" or "post_json"
    http_retry_count,   \* retry_count
    http_relay,         \* relay_zcpt_base_url and relay_zcpt_token are configured
    http_origin,        \* origin of the url argument: "zcpt" or "other"
    http_attempt,       \* attempt, the loop variable
    http_last_err,      \* last_err: the attempt whose error it holds, 0 for None
    http_trace,         \* history: the requests sent and the sleeps, in order
    http_outcome,       \* "running", "returned", "raised" or "assertion"
    \* ---- the try block of one ingest iteration and its handler, taken alone
    det_fail_at,        \* the stage that raises: "none", "fetch", "extract", "summarize"
    det_content,        \* what extract_detail_content returns
    det_summarizer,     \* ai: "none", or what ai.summarize returns ("ai", the
                        \* sentinel, "")
    det_notify,         \* "off", "digest", "per_item_ok" or "per_item_fails"
    det_row,            \* content, ai_summary and status of the candidate's row
    det_errors,         \* what the iteration appended to item_errors
    det_buffered,       \* the iteration appended the item to new_items
    \* ---- the end-of-run digest, taken alone
    dg_new_items,       \* new_items, the buffer
    dg_i,               \* i, the loop variable of range(0, len(new_items), chunk_size)
    dg_cards,           \* history: the digest cards sent, in order
    dg_pc,              \* "loop", "done", or "failed" (send_card raised)
    \* ---- the task table, taken alone
    tk_tasks,           \* the rows of table tasks
    tk_now,             \* datetime.now() to the second
    tk_last,            \* history: the last call made on the table
    \* ---- the inter-item delay of the ingest loop, taken alone
    thr_cfg,            \* loop_delay_seconds, max_loop_delay_seconds,
                        \* delay_increment_seconds, batch_size, and adaptive
    thr_total_processed,\* total_processed
    thr_current_delay,  \* current_delay
    thr_kind,           \* history: how the last iteration ended, "none" before
    \* ---- the date handling of the filter stage, taken alone
    nd_raw_dates,       \* date_raw of the raw items, in order
    nd_fixtures,        \* cfg.use_test_fixtures
    nd_days_lookback,   \* cfg.days_lookback
    nd_result,          \* outcome "none", "filtered" or "raised", and the dates kept
    \* ---- the web UI's log buffers: one task runtime or one live run, streamed
    log_kind,           \* "task" (TaskScheduler), "run" (RunManager), "none" at rest
    appended,           \* history: lines appended so far; a line is its serial number
    rt_running,         \* TaskRuntime.running
    rt_last_status,     \* TaskRuntime.last_status, "none" while no runtime exists
    rt_proc,            \* TaskRuntime.proc: NoProc, or the job whose process it is
    rt_lines,           \* TaskRuntime.lines
    job_pc,             \* position of each _run_task_job thread
    active_procs,       \* the jobs whose subprocess is alive
    live_status,        \* LiveRun.status
    live_lines,         \* LiveRun.lines
    live_done,          \* LiveRun.done
    worker_pc,          \* position of the worker thread of RunManager.start
    gen_pc,             \* position of the stream generator gen()
    gen_last,           \* its local last
    gen_lines,          \* its local lines when that list is no longer the buffer
    gen_stale,          \* its local lines is a list the buffer was rebound away from
    gen_out,            \* history: the lines the client received
    gen_owed            \* history: the lines in the buffer at connection or added since

vars == <<overlap, candidates, feishu_enabled, feishu_notify_mode, ai_enabled,
          announcements, indexes, runs_table,
          pc, cfg, filtered, idx, total_processed, total_new, total_duplicate,
          item_errors, new_items, report, conn_open,
          finish_calls, outcome, prior_done, notify_failed, store_raised, cards_sent,
          stubs_inserted,
          crawl_pc, cfg_max_pages_total, cfg_max_pages_per_category,
          seen_pages, queue, url, page_url, page_idx, page_turns, chain_fetches,
          category_fetch_failed, start_fetch_failed,
          use_test_fixtures, track_raw, raw, collected_items, parsed_ok, failed_roots,
          branches_explored, track_calls, get_text_calls,
          pg_zcpt_items, pg_notices, pg_earliest_keep, pg_should_stop,
          db_strategy, insert_log,
          flt_normalized, flt_today, flt_fixtures, flt_days_lookback, flt_filtered,
          flt_prev, flt_passes,
          http_fn, http_retry_count, http_relay, http_origin, http_attempt,
          http_last_err, http_trace, http_outcome,
          det_fail_at, det_content, det_summarizer, det_notify, det_row, det_errors,
          det_buffered,
          dg_new_items, dg_i, dg_cards, dg_pc,
          tk_tasks, tk_now, tk_last,
          thr_cfg, thr_total_processed, thr_current_delay, thr_kind,
          nd_raw_dates, nd_fixtures, nd_days_lookback, nd_result,
          log_kind, appended,
          rt_running, rt_last_status, rt_proc, rt_lines, job_pc, active_procs,
          live_status, live_lines, live_done, worker_pc,
          gen_pc, gen_last, gen_lines, gen_stale, gen_out, gen_owed>>

stop_vars == <<pg_zcpt_items, pg_notices, pg_earliest_keep, pg_should_stop>>

\* The state of the parts that are stepped by specifications of their own.
db_vars == <<db_strategy, insert_log>>
flt_vars == <<flt_normalized, flt_today, flt_fixtures, flt_days_lookback,
              flt_filtered, flt_prev, flt_passes>>
http_vars == <<http_fn, http_retry_count, http_relay, http_origin, http_attempt,
               http_last_err, http_trace, http_outcome>>
det_vars == <<det_fail_at, det_content, det_summarizer, det_notify, det_row,
              det_errors, det_buffered>>
dg_vars == <<dg_new_items, dg_i, dg_cards, dg_pc>>
tk_vars == <<tk_tasks, tk_now, tk_last>>
thr_vars == <<thr_cfg, thr_total_processed, thr_current_delay, thr_kind>>
nd_vars == <<nd_raw_dates, nd_fixtures, nd_days_lookback, nd_result>>
rt_vars == <<rt_running, rt_last_status, rt_proc, rt_lines, job_pc, active_procs>>
live_vars == <<live_status, live_lines, live_done, worker_pc>>
gen_vars == <<gen_pc, gen_last, gen_lines, gen_stale, gen_out, gen_owed>>
lg_vars == <<log_kind, appended, rt_vars, live_vars, gen_vars>>
more_vars == <<nd_vars, lg_vars>>
ext_vars == <<det_vars, dg_vars, tk_vars, thr_vars, more_vars>>
unit_vars == <<stop_vars, db_vars, flt_vars, http_vars, ext_vars>>

item_vars == <<raw, collected_items, parsed_ok, failed_roots>>
trace_vars == <<branches_explored, get_text_calls>>

crawl_vars == <<crawl_pc, cfg_max_pages_total, cfg_max_pages_per_category,
                seen_pages, queue, url, page_url, page_idx, page_turns, chain_fetches,
                category_fetch_failed, start_fetch_failed,
                use_test_fixtures, track_raw, item_vars, track_calls, trace_vars>>
deploy_vars == <<overlap, candidates, feishu_enabled, feishu_notify_mode, ai_enabled,
                 unit_vars>>
store_vars == <<announcements, indexes, runs_table>>
counter_vars == <<total_processed, total_new, total_duplicate>>
switch_vars == <<overlap, candidates, feishu_enabled, feishu_notify_mode, ai_enabled>>
local_vars == <<pc, cfg, filtered, idx, counter_vars, item_errors, new_items, report,
                conn_open, finish_calls, outcome, prior_done, notify_failed,
                store_raised, cards_sent, stubs_inserted>>

\* ------------------------------------------------------------------ store

\* The title_date key without its date.
DedupeKeyNoDate(strategy, t, u, d) ==
    IF strategy = "url" THEN <<"url", u>> ELSE <<"title", t>>

\* The columns the active strategy compares (db.py is_duplicate and the unique index).
DedupeKey(strategy, t, u, d) ==
    IF strategy = "url" THEN <<"url", u>>
    ELSE IF strategy = "title_date" THEN <<"title_date", t, d>>
    ELSE <<"title", t>>

RowKey(strategy, row) == DedupeKey(strategy, row.title, row.url, row.date)

is_duplicate(strategy, rows, t, u, d) ==
    \E row \in rows : RowKey(strategy, row) = DedupeKey(strategy, t, u, d)

\* DELETE ... WHERE id NOT IN (SELECT MIN(id) ... GROUP BY <key>)
_dedupe_existing_rows(strategy, rows) ==
    {row \in rows :
        \A other \in rows :
            RowKey(strategy, other) = RowKey(strategy, row) => row.id <= other.id}

\* No index is created.
no_unique_index(strategy, idxs) == idxs

\* CREATE UNIQUE INDEX IF NOT EXISTS for the active strategy; no index is dropped.
_create_strategy_unique_index(strategy, idxs) == idxs \cup {strategy}

\* INSERT OR IGNORE: the row is ignored when any UNIQUE index of the table rejects it.
InsertRejected(idxs, rows, t, u, d) ==
    \E s \in idxs : \E row \in rows : RowKey(s, row) = DedupeKey(s, t, u, d)

NextRowId(rows) == IF rows = {} THEN 1 ELSE Max({row.id : row \in rows}) + 1

insert_announcement_base(idxs, rows, t, u, d, status) ==
    IF InsertRejected(idxs, rows, t, u, d) THEN rows
    ELSE rows \cup {[id |-> NextRowId(rows), title |-> t, url |-> u, date |-> d,
                     content |-> NULL, ai_summary |-> NULL, status |-> status]}

\* Rows marked FAILED are removed instead of kept.
update_dropping_failed(rows, t, content, ai_summary, status) ==
    IF status = "FAILED" THEN {row \in rows : row.title # t}
    ELSE {IF row.title = t
             THEN [row EXCEPT !.content = content, !.ai_summary = ai_summary,
                              !.status = status]
             ELSE row : row \in rows}

\* UPDATE announcements SET ... WHERE title = ?
update_announcement_detail(rows, t, content, ai_summary, status) ==
    {IF row.title = t
        THEN [row EXCEPT !.content = content, !.ai_summary = ai_summary,
                         !.status = status]
        ELSE row : row \in rows}

NoRun == [status |-> "ABSENT", total_processed |-> 0, total_new |-> 0,
          total_duplicate |-> 0, error |-> NULL]

start_run(table, r) ==
    [table EXCEPT ![r] = [status |-> "RUNNING", total_processed |-> 0,
                          total_new |-> 0, total_duplicate |-> 0, error |-> NULL]]

\* UPDATE runs without its WHERE clause on the rows still RUNNING.
finish_run_every_running(table, r, status, processed, new, duplicate, error) ==
    [q \in DOMAIN table |->
        IF q = r \/ table[q].status = "RUNNING"
        THEN [status |-> status, total_processed |-> processed, total_new |-> new,
              total_duplicate |-> duplicate, error |-> error]
        ELSE table[q]]

\* UPDATE runs SET ... WHERE run_id = ?
finish_run(table, r, status, processed, new, duplicate, error) ==
    [table EXCEPT ![r] = [status |-> status, total_processed |-> processed,
                          total_new |-> new, total_duplicate |-> duplicate,
                          error |-> error]]

\* ------------------------------------------------------------- summarizer

\* What the chat-completions request gives AiClient.summarize.
HttpResults == {"raise", "no_choices", "empty_text", "text"}

\* AiClient.summarize: every failure of the request or of the response shape
\* is turned into the sentinel.
summarize(http_result) ==
    IF http_result = "text" THEN "ai" ELSE Sentinel

build_fallback_summary == "fallback"

\* run_once, the summary written for a fetched detail page, given what
\* ai.summarize returned: if not content / elif ai is None / else.
LoopSummary(content, ai_present, returned) ==
    IF content = "" THEN Sentinel
    ELSE IF ~ai_present THEN build_fallback_summary
    ELSE IF returned = "" \/ returned = Sentinel THEN build_fallback_summary
    ELSE returned

\* The same with AiClient as the summarizer.
AiSummary(content, ai_present, http_result) ==
    LoopSummary(content, ai_present, summarize(http_result))

\* --------------------------------------------------------------- run_once

Ended == {"done", "raised"}

\* Before the run has read its configuration, and before it has returned.
NoCfg == [dedupe_strategy |-> "NONE", dry_run |-> FALSE, max_items_per_run |-> 0]
NoReport == [status |-> "NONE", run_id |-> NULL, total_processed |-> 0,
             total_new |-> 0, total_duplicate |-> 0, error |-> NULL]
Returned(r) == report[r].status # "NONE"

\* No page is before the stop rule.
StopIdle ==
    /\ pg_zcpt_items = {}
    /\ pg_notices = {}
    /\ pg_earliest_keep = 0
    /\ pg_should_stop = "none"

\* No handle is open beside those of the runs.
DbIdle ==
    /\ db_strategy = "closed"
    /\ insert_log = <<>>

\* Nothing is before the filter stage.
FilterIdle ==
    /\ flt_normalized = <<>>
    /\ flt_today = 0
    /\ flt_fixtures = FALSE
    /\ flt_days_lookback = 1
    /\ flt_filtered = <<>>
    /\ flt_prev = <<>>
    /\ flt_passes = 0

\* No call of the HTTP client is followed.
HttpIdle ==
    /\ http_fn = "get_text"
    /\ http_retry_count = 1
    /\ http_relay = FALSE
    /\ http_origin = "other"
    /\ http_attempt = 1
    /\ http_last_err = 0
    /\ http_trace = <<>>
    /\ http_outcome = "running"

\* The row of a candidate as insert_announcement_base leaves it.
StubRow == [content |-> NULL, ai_summary |-> NULL, status |-> "NEW"]

\* No iteration is followed alone.
DetailIdle ==
    /\ det_fail_at = "none"
    /\ det_content = ""
    /\ det_summarizer = "none"
    /\ det_notify = "off"
    /\ det_row = StubRow
    /\ det_errors = <<>>
    /\ det_buffered = FALSE

\* No digest is being sent.
DigestIdle ==
    /\ dg_new_items = <<>>
    /\ dg_i = 0
    /\ dg_cards = <<>>
    /\ dg_pc = "done"

\* A call on the task table; "none" before the first.
TaskCall(op, task_id, enabled, schedule_type, config) ==
    [op |-> op, task_id |-> task_id, enabled |-> enabled,
     schedule_type |-> schedule_type, config |-> config]

NoTaskCall == TaskCall("none", NULL, FALSE, NULL, <<>>)

\* The task table is empty and unused.
TaskIdle ==
    /\ tk_tasks = {}
    /\ tk_now = 0
    /\ tk_last = NoTaskCall

ThrottleCfg(loop_delay, max_loop_delay, delay_increment, batch, adaptive) ==
    [loop_delay_seconds |-> loop_delay, max_loop_delay_seconds |-> max_loop_delay,
     delay_increment_seconds |-> delay_increment, batch_size |-> batch,
     adaptive |-> adaptive]

\* No loop is being followed for its delay.
ThrottleIdle ==
    /\ thr_cfg = ThrottleCfg(0, 0, 0, 0, FALSE)
    /\ thr_total_processed = 0
    /\ thr_current_delay = 0
    /\ thr_kind = "none"

\* No list of dates is before the filter stage.
DateIdle ==
    /\ nd_raw_dates = <<>>
    /\ nd_fixtures = FALSE
    /\ nd_days_lookback = 1
    /\ nd_result = [outcome |-> "none", kept |-> <<>>]

Jobs == {"j1", "j2"}
NoProc == "none"

\* No task runtime and no live run exist, nobody streams.
LogsIdle ==
    /\ log_kind = "none"
    /\ appended = 0
    /\ rt_running = FALSE
    /\ rt_last_status = "none"
    /\ rt_proc = NoProc
    /\ rt_lines = <<>>
    /\ job_pc = [j \in Jobs |-> "idle"]
    /\ active_procs = {}
    /\ live_status = "none"
    /\ live_lines = <<>>
    /\ live_done = FALSE
    /\ worker_pc = "none"
    /\ gen_pc = "none"
    /\ gen_last = 0
    /\ gen_lines = <<>>
    /\ gen_stale = FALSE
    /\ gen_out = <<>>
    /\ gen_owed = <<>>

MoreIdle == DateIdle /\ LogsIdle

ExtIdle ==
    /\ DetailIdle
    /\ DigestIdle
    /\ TaskIdle
    /\ ThrottleIdle
    /\ MoreIdle

\* The parts stepped by specifications of their own are at rest.
UnitsIdle ==
    /\ StopIdle
    /\ DbIdle
    /\ FilterIdle
    /\ HttpIdle
    /\ ExtIdle

\* The locals of run_once before its first statement.
RunLocalsFresh ==
    /\ filtered = [r \in Runs |-> <<>>]
    /\ idx = [r \in Runs |-> 0]
    /\ total_processed = [r \in Runs |-> 0]
    /\ total_new = [r \in Runs |-> 0]
    /\ total_duplicate = [r \in Runs |-> 0]
    /\ item_errors = [r \in Runs |-> <<>>]
    /\ new_items = [r \in Runs |-> <<>>]
    /\ report = [r \in Runs |-> NoReport]
    /\ finish_calls = [r \in Runs |-> 0]
    /\ outcome = [r \in Runs |-> <<>>]
    /\ prior_done = [r \in Runs |-> {}]
    /\ notify_failed = [r \in Runs |-> FALSE]
    /\ store_raised = [r \in Runs |-> FALSE]
    /\ cards_sent = [r \in Runs |-> FALSE]
    /\ stubs_inserted = [r \in Runs |-> 0]

InitRuns ==
    /\ candidates \in CandidateLists
    /\ feishu_enabled \in BOOLEAN
    /\ feishu_notify_mode \in {"digest", "per_item"}
    /\ (~feishu_enabled => feishu_notify_mode = "digest")
    /\ ai_enabled \in BOOLEAN
    /\ announcements = {}
    /\ indexes = {}
    /\ runs_table = [r \in Runs |-> NoRun]
    /\ pc = [r \in Runs |-> "idle"]
    /\ cfg = [r \in Runs |-> NoCfg]
    /\ conn_open = [r \in Runs |-> FALSE]
    /\ RunLocalsFresh

\* The crawl's item lists are not followed: pages count, their items do not.
NoItemsFollowed ==
    /\ use_test_fixtures = FALSE
    /\ track_raw = FALSE
    /\ raw = <<>>
    /\ collected_items = <<>>
    /\ parsed_ok = {}
    /\ failed_roots = {}

\* The calls of http.get_text are not counted.
NoCallsFollowed ==
    /\ track_calls = FALSE
    /\ branches_explored = 0
    /\ get_text_calls = [u \in {"start", "a", "b", "c"},
                            role \in {"start", "chain", "root"} |-> 0]

\* No crawl is modelled in detail while runs are explored.
CrawlOff ==
    /\ crawl_pc = "off"
    /\ cfg_max_pages_total = 1
    /\ cfg_max_pages_per_category = 1
    /\ seen_pages = {}
    /\ queue = <<>>
    /\ url = NULL
    /\ page_url = NULL
    /\ page_idx = 0
    /\ page_turns = 0
    /\ chain_fetches = 0
    /\ category_fetch_failed = FALSE
    /\ start_fetch_failed = FALSE
    /\ NoItemsFollowed
    /\ NoCallsFollowed

\* Invocations one after the other (cron, command line).
Init == InitRuns /\ overlap = FALSE /\ CrawlOff /\ UnitsIdle

\* Invocations as concurrent processes on one store (scheduler plus run_now);
\* notifier and summarizer are local to a run and are switched off here.
InitRace ==
    InitRuns /\ overlap = TRUE /\ ~feishu_enabled /\ ~ai_enabled /\ CrawlOff /\ UnitsIdle

\* The run whose crawl is followed page by page when a crawl is modelled.
CrawlRun == "r1"

\* When the invoking layer starts run r.  The runs are interchangeable, so r1 is
\* taken to be the one started first; with a crawl modelled only CrawlRun runs.
Scheduled(r) ==
    /\ r = "r2" => IF overlap THEN pc["r1"] # "idle" ELSE pc["r1"] \in Ended
    /\ crawl_pc # "off" => r = CrawlRun

\* What _collect_list_items gave run r: it "raised" or it "returned".  Without a
\* crawl modelled either is possible.
CrawlResult(r, result) ==
    crawl_pc # "off" =>
        /\ r = CrawlRun
        /\ crawl_pc = (IF result = "raised" THEN "raised" ELSE "done")

\* The dict run_once returns.
Report(r, status, error) ==
    [status |-> status, run_id |-> r,
     total_processed |-> total_processed[r], total_new |-> total_new[r],
     total_duplicate |-> total_duplicate[r], error |-> error]

\* db.finish_run as called by run r, with the call counted.
FinishRun(r, status, processed, new, duplicate, error) ==
    /\ runs_table' = finish_run(runs_table, r, status, processed, new, duplicate, error)
    /\ finish_calls' = [finish_calls EXCEPT ![r] = @ + 1]

\* db.close() and return of the report.
CloseAndReturn(r, status, error) ==
    /\ conn_open' = [conn_open EXCEPT ![r] = FALSE]
    /\ report' = [report EXCEPT ![r] = Report(r, status, error)]
    /\ pc' = [pc EXCEPT ![r] = "done"]

\* The outer handler (except Exception): finish_run with FAILED and the counters
\* as they stand; the error notification follows as its own step.
ExceptHandler(r) ==
    /\ FinishRun(r, "FAILED", total_processed[r], total_new[r], total_duplicate[r],
                 "traceback")
    /\ pc' = [pc EXCEPT ![r] = "error_notify"]

\* Database(...), init_schema(), start_run(): the run's configuration is read and
\* the Run row is created.
StartWith(r, caps) ==
    /\ pc[r] = "idle"
    /\ Scheduled(r)
    /\ \E s \in Strategies, dry \in BOOLEAN, m \in caps :
          /\ cfg' = [cfg EXCEPT ![r] = [dedupe_strategy |-> s, dry_run |-> dry,
                                         max_items_per_run |-> m]]
          /\ announcements' = _dedupe_existing_rows(s, announcements)
          /\ indexes' = _create_strategy_unique_index(s, indexes)
    /\ runs_table' = start_run(runs_table, r)
    /\ conn_open' = [conn_open EXCEPT ![r] = TRUE]
    /\ prior_done' = [prior_done EXCEPT ![r] = {q \in Runs : pc[q] \in Ended}]
    /\ pc' = [pc EXCEPT ![r] = "collect"]
    /\ UNCHANGED <<crawl_vars, deploy_vars, stubs_inserted, cards_sent, store_raised, filtered, idx, counter_vars, item_errors, new_items,
                   report, finish_calls, outcome, notify_failed>>

\* Uncapped, or capped below the longest candidate list.
Start(r) == StartWith(r, 0..1)

\* _collect_list_items and the filter stage, seen from run_once: the crawl raises
\* (the start page could not be fetched), returns no item, or returns items of
\* which the filter keeps the candidate list.
CollectRaises(r) ==
    /\ pc[r] = "collect"
    /\ CrawlResult(r, "raised")
    /\ ExceptHandler(r)
    /\ UNCHANGED <<crawl_vars, deploy_vars, stubs_inserted, cards_sent, store_raised, announcements, indexes, cfg, filtered, idx,
                   counter_vars, item_errors, new_items, report, conn_open,
                   outcome, prior_done, notify_failed>>

\* The zero-items return without finalising the Run row.
CollectNoItemsUnfinished(r) ==
    /\ pc[r] = "collect"
    /\ CrawlResult(r, "returned")
    /\ CloseAndReturn(r, "COMPLETED", NULL)
    /\ UNCHANGED <<crawl_vars, deploy_vars, stubs_inserted, cards_sent, store_raised, store_vars, cfg, filtered, idx,
                   counter_vars, item_errors, new_items, finish_calls,
                   outcome, prior_done, notify_failed>>

\* if not raw: finish_run(COMPLETED, zeros), close, return.
CollectNoItems(r) ==
    /\ pc[r] = "collect"
    /\ CrawlResult(r, "returned")
    /\ FinishRun(r, "COMPLETED", 0, 0, 0, NULL)
    /\ CloseAndReturn(r, "COMPLETED", NULL)
    /\ UNCHANGED <<crawl_vars, deploy_vars, stubs_inserted, cards_sent, store_raised, announcements, indexes, cfg, filtered, idx,
                   counter_vars, item_errors, new_items,
                   outcome, prior_done, notify_failed>>

CollectItems(r) ==
    /\ pc[r] = "collect"
    /\ CrawlResult(r, "returned")
    /\ filtered' = [filtered EXCEPT ![r] = candidates]
    /\ pc' = [pc EXCEPT ![r] = "loop"]
    /\ UNCHANGED <<crawl_vars, deploy_vars, stubs_inserted, cards_sent, store_raised, store_vars, cfg, idx, counter_vars, item_errors,
                   new_items, report, conn_open, finish_calls, outcome, prior_done,
                   notify_failed>>

\* max_items = cfg.max_items_per_run; if max_items < 0: max_items = 0
max_items(r) == IF cfg[r].max_items_per_run < 0 THEN 0 ELSE cfg[r].max_items_per_run

\* The cap tested one iteration late.
LoopExhaustedCapLate(r) ==
    \/ idx[r] >= Len(filtered[r])
    \/ (max_items(r) # 0 /\ idx[r] > max_items(r))

\* for idx, ... in enumerate(filtered): if max_items and idx >= max_items: break
LoopExhausted(r) ==
    \/ idx[r] >= Len(filtered[r])
    \/ (max_items(r) # 0 /\ idx[r] >= max_items(r))

CurrentItem(r) == filtered[r][idx[r] + 1]

\* The head of one loop iteration: the existence check and the counting.
CheckDuplicate(r) ==
    /\ pc[r] = "loop"
    /\ ~LoopExhausted(r)
    /\ LET it == CurrentItem(r)
           exists == is_duplicate(cfg[r].dedupe_strategy, announcements,
                                  it.title, it.url, it.date)
       IN IF exists
          THEN /\ total_duplicate' = [total_duplicate EXCEPT ![r] = @ + 1]
               /\ total_processed' = [total_processed EXCEPT ![r] = @ + 1]
               /\ total_new' = total_new
               /\ outcome' = [outcome EXCEPT ![r] = Append(@, "duplicate")]
               /\ idx' = [idx EXCEPT ![r] = @ + 1]
               /\ pc' = pc
          ELSE /\ total_new' = [total_new EXCEPT ![r] = @ + 1]
               /\ total_processed' = [total_processed EXCEPT ![r] = @ + 1]
               /\ total_duplicate' = total_duplicate
               /\ IF cfg[r].dry_run
                  THEN /\ outcome' = [outcome EXCEPT ![r] = Append(@, "new_dry")]
                       /\ idx' = [idx EXCEPT ![r] = @ + 1]
                       /\ pc' = pc
                  ELSE /\ outcome' = outcome
                       /\ idx' = idx
                       /\ pc' = [pc EXCEPT ![r] = "insert"]
    /\ UNCHANGED <<crawl_vars, deploy_vars, stubs_inserted, cards_sent, store_raised, store_vars, cfg, filtered, item_errors, new_items,
                   report, conn_open, finish_calls, prior_done, notify_failed>>

\* The counters are corrected when the insert was rejected.
RaceDowngradeKeepsNew(r) ==
    /\ total_duplicate' = [total_duplicate EXCEPT ![r] = @ + 1]
    /\ total_new' = total_new

\* if not inserted: total_duplicate += 1; total_new -= 1
RaceDowngrade(r) ==
    /\ total_duplicate' = [total_duplicate EXCEPT ![r] = @ + 1]
    /\ total_new' = [total_new EXCEPT ![r] = @ - 1]

\* db.insert_announcement_base(...); a rejected insert is the race downgrade.
InsertStub(r) ==
    /\ pc[r] = "insert"
    /\ LET it == CurrentItem(r)
           rows == insert_announcement_base(indexes, announcements,
                                            it.title, it.url, it.date, "NEW")
           inserted == rows # announcements
       IN /\ announcements' = rows
          /\ stubs_inserted' = [stubs_inserted EXCEPT ![r] =
                                   IF inserted THEN @ + 1 ELSE @]
          /\ IF ~inserted
             THEN /\ RaceDowngrade(r)
                  /\ outcome' = [outcome EXCEPT ![r] = Append(@, "race_duplicate")]
                  /\ idx' = [idx EXCEPT ![r] = @ + 1]
                  /\ pc' = [pc EXCEPT ![r] = "loop"]
             ELSE /\ UNCHANGED <<total_duplicate, total_new, outcome, idx>>
                  /\ pc' = [pc EXCEPT ![r] = "detail"]
    /\ UNCHANGED <<crawl_vars, deploy_vars, cards_sent, store_raised, indexes, runs_table, cfg, filtered, total_processed,
                   item_errors, new_items, report, conn_open, finish_calls,
                   prior_done, notify_failed>>

\* The distinct environments of one iteration: choices that cannot influence the
\* iteration are fixed.
DetailCase(fail_at, content, http_result, send_ok) ==
    /\ fail_at = "fetch" => content = ""
    /\ (fail_at # "none" \/ content = "" \/ ~ai_enabled) => http_result = "text"
    /\ (fail_at # "none" \/ ~feishu_enabled \/ feishu_notify_mode # "per_item") => send_ok

\* The item handler leaves the stub as inserted.
ItemFailedLeavesStub(r, it) ==
    /\ item_errors' = [item_errors EXCEPT ![r] = Append(@, "item_failed")]
    /\ announcements' = announcements
    /\ outcome' = [outcome EXCEPT ![r] = Append(@, "new_failed")]

\* except Exception of one iteration: the error is recorded, the row is marked
\* FAILED with empty content and the sentinel summary; continue.
ItemFailed(r, it) ==
    /\ item_errors' = [item_errors EXCEPT ![r] = Append(@, "item_failed")]
    /\ announcements' = update_announcement_detail(
                            announcements, it.title, "", Sentinel, "FAILED")
    /\ outcome' = [outcome EXCEPT ![r] = Append(@, "new_failed")]

\* The try block of one iteration: fetch, extract, summarize, persist, notify;
\* and its handler.  fail_at names the stage that raised, if any.
ProcessDetail(r) ==
    /\ pc[r] = "detail"
    /\ \E fail_at \in {"none", "fetch", "extract", "summarize"},
          content \in {"", "text"},
          http_result \in HttpResults,
          send_ok \in BOOLEAN :
        /\ DetailCase(fail_at, content, http_result, send_ok)
        /\ cards_sent' = [cards_sent EXCEPT ![r] =
                             @ \/ (/\ fail_at = "none"
                                   /\ feishu_enabled
                                   /\ feishu_notify_mode = "per_item")]
        /\ LET it == CurrentItem(r)
               ai_summary == AiSummary(content, ai_enabled, http_result)
           IN IF fail_at # "none"
              THEN /\ ItemFailed(r, it)
                   /\ UNCHANGED <<new_items, notify_failed>>
              ELSE /\ announcements' = update_announcement_detail(
                                           announcements, it.title, content, ai_summary,
                                           "PROCESSED")
                   /\ outcome' = [outcome EXCEPT ![r] = Append(@, "new_processed")]
                   /\ IF ~feishu_enabled
                      THEN UNCHANGED <<item_errors, new_items, notify_failed>>
                      ELSE IF feishu_notify_mode = "per_item"
                      THEN /\ new_items' = new_items
                           /\ IF send_ok
                              THEN UNCHANGED <<item_errors, notify_failed>>
                              ELSE /\ item_errors' = [item_errors EXCEPT ![r] =
                                                         Append(@, "feishu_send_failed")]
                                   /\ notify_failed' = [notify_failed EXCEPT ![r] = TRUE]
                      ELSE /\ new_items' = [new_items EXCEPT ![r] = Append(@, it)]
                           /\ UNCHANGED <<item_errors, notify_failed>>
    /\ idx' = [idx EXCEPT ![r] = @ + 1]
    /\ pc' = [pc EXCEPT ![r] = "loop"]
    /\ UNCHANGED <<crawl_vars, deploy_vars, stubs_inserted, store_raised, indexes, runs_table, cfg, filtered, counter_vars,
                   report, conn_open, finish_calls, prior_done>>

\* A store call of the loop raises (sqlite3.Error, such as "database is locked"):
\* is_duplicate, insert_announcement_base, or the update made by the item
\* handler, which has recorded its error by then.  Nothing in the loop catches it.
StoreRaises(r) ==
    /\ pc[r] \in {"loop", "insert", "detail"}
    /\ pc[r] = "loop" => ~LoopExhausted(r)
    /\ item_errors' = [item_errors EXCEPT ![r] =
                          IF pc[r] = "detail" THEN Append(@, "item_failed") ELSE @]
    /\ store_raised' = [store_raised EXCEPT ![r] = TRUE]
    /\ ExceptHandler(r)
    /\ UNCHANGED <<crawl_vars, deploy_vars, stubs_inserted, cards_sent, announcements, indexes, cfg, filtered, idx,
                   counter_vars, new_items, report, conn_open, outcome, prior_done,
                   notify_failed>>

\* After the loop: db.finish_run(status="COMPLETED", ...).
FinishCompleted(r) ==
    /\ pc[r] = "loop"
    /\ LoopExhausted(r)
    /\ FinishRun(r, "COMPLETED", total_processed[r], total_new[r], total_duplicate[r],
                 IF item_errors[r] # <<>> THEN "item_errors" ELSE NULL)
    /\ pc' = [pc EXCEPT ![r] = "summary"]
    /\ UNCHANGED <<crawl_vars, deploy_vars, stubs_inserted, cards_sent, store_raised, announcements, indexes, cfg, filtered, idx,
                   counter_vars, item_errors, new_items, report, conn_open,
                   outcome, prior_done, notify_failed>>

\* Whether the end of the run calls feishu.send_card at all: a digest over an
\* empty buffer sends no chunk.
EndOfRunSends(r) ==
    /\ feishu_enabled
    /\ total_new[r] > 0
    /\ (feishu_notify_mode = "digest" => Len(new_items[r]) > 0)

\* The end-of-run send with its failure reaching the outer handler.
EndOfRunNotifyUncaught(r) ==
    /\ pc[r] = "summary"
    /\ \E send_ok \in BOOLEAN :
          /\ ~EndOfRunSends(r) => send_ok
          /\ notify_failed' = [notify_failed EXCEPT ![r] = @ \/ ~send_ok]
          /\ cards_sent' = [cards_sent EXCEPT ![r] = @ \/ EndOfRunSends(r)]
          /\ IF send_ok
             THEN /\ CloseAndReturn(r, "COMPLETED", NULL)
                  /\ UNCHANGED <<runs_table, finish_calls>>
             ELSE /\ ExceptHandler(r)
                  /\ UNCHANGED <<report, conn_open>>
    /\ UNCHANGED <<crawl_vars, deploy_vars, stubs_inserted, store_raised, announcements, indexes, cfg,
                   filtered, idx, counter_vars, item_errors, new_items, outcome,
                   prior_done>>

\* The end-of-run digest or summary card, sent inside try/except: pass; then
\* db.close() and the return.
EndOfRunNotify(r) ==
    /\ pc[r] = "summary"
    /\ \E send_ok \in BOOLEAN :
          /\ ~EndOfRunSends(r) => send_ok
          /\ notify_failed' = [notify_failed EXCEPT ![r] = @ \/ ~send_ok]
          /\ cards_sent' = [cards_sent EXCEPT ![r] = @ \/ EndOfRunSends(r)]
    /\ CloseAndReturn(r, "COMPLETED", NULL)
    /\ UNCHANGED <<crawl_vars, deploy_vars, stubs_inserted, store_raised, store_vars, cfg, filtered, idx, counter_vars,
                   item_errors, new_items, finish_calls, outcome, prior_done>>

\* The handler's tail: if feishu: feishu.send_card(build_error_card(...)), outside
\* any try; then db.close() and the return.
ErrorNotify(r) ==
    /\ pc[r] = "error_notify"
    /\ \E send_ok \in BOOLEAN :
          /\ ~feishu_enabled => send_ok
          /\ cards_sent' = [cards_sent EXCEPT ![r] = @ \/ feishu_enabled]
          /\ IF ~send_ok
             THEN /\ notify_failed' = [notify_failed EXCEPT ![r] = TRUE]
                  /\ pc' = [pc EXCEPT ![r] = "raised"]
                  /\ UNCHANGED <<conn_open, report>>
             ELSE /\ notify_failed' = notify_failed
                  /\ CloseAndReturn(r, "FAILED", "traceback")
    /\ UNCHANGED <<crawl_vars, deploy_vars, stubs_inserted, store_raised, store_vars, cfg, filtered, idx, counter_vars,
                   item_errors, new_items, finish_calls, outcome, prior_done>>

RunBody(r) ==
    \/ CollectRaises(r)
    \/ CollectNoItems(r)
    \/ CollectItems(r)
    \/ CheckDuplicate(r)
    \/ InsertStub(r)
    \/ ProcessDetail(r)
    \/ StoreRaises(r)
    \/ FinishCompleted(r)
    \/ EndOfRunNotify(r)
    \/ ErrorNotify(r)

RunStep(r) == Start(r) \/ RunBody(r)

Next == \E r \in Runs : RunStep(r)

\* One invocation alone, its cap anywhere from below zero to past the end of
\* the candidate list.
Caps == -1..(MaxCandidates + 1)

NextCap == StartWith(CrawlRun, Caps) \/ RunBody(CrawlRun)

SpecCap == Init /\ [][NextCap]_vars

Spec == Init /\ [][Next]_vars

SpecRace == InitRace /\ [][Next]_vars

\* ------------------------------------------------------- runs that are killed
\* The process of run r is terminated between start_run and finish_run: the run
\* takes no further step and its connection is gone.
Kill(r) ==
    /\ pc[r] \notin {"idle", "killed"} \cup Ended
    /\ runs_table[r].status = "RUNNING"
    /\ pc' = [pc EXCEPT ![r] = "killed"]
    /\ conn_open' = [conn_open EXCEPT ![r] = FALSE]
    /\ UNCHANGED <<crawl_vars, deploy_vars, store_vars, cfg, filtered, idx,
                   counter_vars, item_errors, new_items, report, finish_calls,
                   outcome, prior_done, notify_failed, store_raised, cards_sent,
                   stubs_inserted>>

\* Two invocations over short lists, either of which may be killed.
InitKill == InitRace /\ Len(candidates) <= 1

NextKill == \E r \in Runs : RunStep(r) \/ Kill(r)

SpecKill == InitKill /\ [][NextKill]_vars

\* ---------------------------------------------------- _collect_list_items

StartUrl == "start"                      \* cfg.list_url
CrawlUrls == {"start", "a", "b", "c"}    \* the URLs the site links to

\* parse_category_links of a page: a list of URLs (here without repetition, in a
\* fixed order, at most MaxLinks of them).
UrlOrder == <<"start", "a", "b", "c">>
LinkLists ==
    {q \in UNION {[1..k -> CrawlUrls] : k \in 0..MaxLinks} :
        \A i, j \in DOMAIN q : i < j =>
            \E m, n \in DOMAIN UrlOrder : m < n /\ UrlOrder[m] = q[i] /\ UrlOrder[n] = q[j]}

\* Dates of the items of a page, as days relative to day 0; EarliestKeep is the
\* oldest day worth keeping.  valid = FALSE is a date_raw that date.fromisoformat
\* rejects.
EarliestKeep == 1
Stale == [valid |-> TRUE, day |-> EarliestKeep - 1]
DateRaws ==
    {[valid |-> FALSE, day |-> 0]}
        \cup {[valid |-> TRUE, day |-> d] : d \in (EarliestKeep - 1)..(EarliestKeep + 1)}
\* A page: the dates of its zcpt-shaped items and of its notice-shaped items
\* (none, one date, or a stale date and another).  Beside zcpt-shaped items the
\* notices are not looked at, so one stale notice stands for all of them.
DateSets == {{}} \cup {{d} : d \in DateRaws} \cup {{Stale, d} : d \in DateRaws}
PageShapes ==
    {p \in [zcpt : DateSets, notices : DateSets] :
        p.zcpt # {} => p.notices \in {{}, {Stale}}}

\* _zcpt_should_stop_page: stop only when the newest valid date is too old.
_zcpt_should_stop_page(zcpt_items, earliest_keep) ==
    LET dates == {d.day : d \in {x \in zcpt_items : x.valid}}
    IN IF dates = {} THEN FALSE ELSE Max(dates) < earliest_keep

\* The ordered rule taken by the newest date instead of the oldest.
NoticesStopByMax(notices, earliest_keep) ==
    IF \E d \in notices : ~d.valid THEN FALSE
    ELSE Max({d.day : d \in notices}) < earliest_keep

\* The elif notices branch: min over all dates; an invalid date raises inside the
\* try and is passed over.
NoticesShouldStop(notices, earliest_keep) ==
    IF \E d \in notices : ~d.valid THEN FALSE
    ELSE Min({d.day : d \in notices}) < earliest_keep

\* Whether pagination of the branch stops after this page (workflow.py 124-148).
ShouldStop(page, earliest_keep) ==
    IF page.zcpt # {} THEN _zcpt_should_stop_page(page.zcpt, earliest_keep)
    ELSE IF page.notices # {} THEN NoticesShouldStop(page.notices, earliest_keep)
    ELSE FALSE

\* max(1, cfg.max_pages_total), max(1, cfg.max_pages_per_category)
max_pages_total == IF cfg_max_pages_total > 1 THEN cfg_max_pages_total ELSE 1
max_pages_per_category ==
    IF cfg_max_pages_per_category > 1 THEN cfg_max_pages_per_category ELSE 1

\* One invocation with its crawl followed page by page.
InitCrawl ==
    /\ InitRuns
    /\ UnitsIdle
    /\ overlap = FALSE
    /\ candidates = <<Item("T1", "U1", "D1")>>
    /\ ~ai_enabled
    /\ crawl_pc = "start"
    /\ cfg_max_pages_total \in 0..MaxPagesTotalCfg
    /\ cfg_max_pages_per_category \in 0..MaxPagesPerCategoryCfg
    /\ seen_pages = {}
    /\ queue = <<>>
    /\ url = NULL
    /\ page_url = NULL
    /\ page_idx = 0
    /\ page_turns = 0
    /\ chain_fetches = 0
    /\ category_fetch_failed = FALSE
    /\ start_fetch_failed = FALSE
    /\ NoItemsFollowed
    /\ NoCallsFollowed

run_vars ==
    <<deploy_vars, store_vars, pc, cfg, filtered, idx, counter_vars,
      item_errors, new_items, report, conn_open, finish_calls, outcome,
      prior_done, notify_failed, store_raised, cards_sent, stubs_inserted>>

crawl_cfg_vars == <<cfg_max_pages_total, cfg_max_pages_per_category,
                    use_test_fixtures, track_raw, track_calls>>

\* The purposes http.get_text is called for in the crawl: the start page, a page
\* of a pagination chain, the re-fetch of a branch root.
CallRoles == {"start", "chain", "root"}
NoCalls == [u \in CrawlUrls, role \in CallRoles |-> 0]

\* http.get_text(u) is called for purpose role.
Called(u, role) ==
    IF track_calls THEN [get_text_calls EXCEPT ![u, role] = @ + 1] ELSE get_text_calls

\* The items one page carries, in page order: (title, link, date_raw) triples, two
\* of which share a title.  An entry may repeat on a page and across pages.
CrawlItems == {Item("T1", "U1", "D1"), Item("T1", "U2", "D1")}
PageItemLists == UNION {[1..k -> CrawlItems] : k \in 0..MaxPageItems}
ItemsOfPage == IF track_raw THEN PageItemLists ELSE {<<>>}

\* for t, l, d in raw: if key in seen_items: continue; seen_items.add(key);
\* out.append(key)
RECURSIVE DedupeRaw(_, _, _)
DedupeRaw(q, seen_items, out) ==
    IF q = <<>> THEN out
    ELSE IF Head(q) \in seen_items THEN DedupeRaw(Tail(q), seen_items, out)
    ELSE DedupeRaw(Tail(q), seen_items \cup {Head(q)}, Append(out, Head(q)))

\* http.get_text(cfg.list_url) raises: the crawl raises.
FetchStartFails ==
    /\ pc[CrawlRun] = "collect"
    /\ crawl_pc = "start"
    /\ ~use_test_fixtures
    /\ crawl_pc' = "raised"
    /\ start_fetch_failed' = TRUE
    /\ get_text_calls' = Called(StartUrl, "start")
    /\ UNCHANGED branches_explored
    /\ UNCHANGED <<run_vars, crawl_cfg_vars, seen_pages, queue, url, page_url,
                   page_idx, page_turns, chain_fetches, category_fetch_failed,
                   item_vars>>

\* The start page is fetched and parsed; its category links seed the queue.
FetchStart ==
    /\ pc[CrawlRun] = "collect"
    /\ crawl_pc = "start"
    /\ ~use_test_fixtures
    /\ \E links \in LinkLists : queue' = links
    /\ \E its \in ItemsOfPage :
          /\ raw' = its
          /\ parsed_ok' = Range(its)
    /\ seen_pages' = {StartUrl}
    /\ page_turns' = 0
    /\ crawl_pc' = "queue"
    /\ get_text_calls' = Called(StartUrl, "start")
    /\ UNCHANGED branches_explored
    /\ UNCHANGED <<run_vars, crawl_cfg_vars, url, page_url, page_idx,
                   chain_fetches, category_fetch_failed,
                   start_fetch_failed, collected_items, failed_roots>>

\* The while loop without the page budget.
QueueLoopIgnoresBudget == queue # <<>>

\* while queue and len(seen_pages) < max_pages_total
QueueLoopContinues == queue # <<>> /\ Cardinality(seen_pages) < max_pages_total

\* The while loop ends: raw is de-duplicated and the crawl returns the items and
\* its stats (pages_seen, page_turns); its other locals are gone.
CrawlReturn ==
    /\ crawl_pc = "queue"
    /\ ~QueueLoopContinues
    /\ collected_items' = DedupeRaw(raw, {}, <<>>)
    /\ crawl_pc' = "done"
    /\ queue' = <<>>
    /\ url' = NULL
    /\ page_url' = NULL
    /\ page_idx' = 0
    /\ chain_fetches' = 0
    /\ UNCHANGED trace_vars
    /\ UNCHANGED <<run_vars, crawl_cfg_vars, seen_pages, page_turns,
                   category_fetch_failed, start_fetch_failed,
                   raw, parsed_ok, failed_roots>>

\* Fixture mode: the items of the fixture list page are returned as parsed.
FixtureReturn ==
    /\ pc[CrawlRun] = "collect"
    /\ crawl_pc = "start"
    /\ use_test_fixtures
    /\ \E its \in PageItemLists :
          /\ collected_items' = its
          /\ parsed_ok' = Range(its)
    /\ crawl_pc' = "done"
    /\ UNCHANGED trace_vars
    /\ UNCHANGED <<run_vars, crawl_cfg_vars, seen_pages, queue, url, page_url,
                   page_idx, page_turns, chain_fetches, category_fetch_failed,
                   start_fetch_failed, raw, failed_roots>>

\* url = queue.pop(0); if url in seen_pages: continue
PopVisited ==
    /\ crawl_pc = "queue"
    /\ QueueLoopContinues
    /\ Head(queue) \in seen_pages
    /\ queue' = Tail(queue)
    /\ UNCHANGED trace_vars
    /\ UNCHANGED <<run_vars, crawl_pc, crawl_cfg_vars, seen_pages, url, page_url,
                   page_idx, page_turns, chain_fetches, category_fetch_failed,
                   start_fetch_failed, item_vars>>

\* url = queue.pop(0); seen_pages.add(url); page_url = url; the for loop starts.
PopBranch ==
    /\ crawl_pc = "queue"
    /\ QueueLoopContinues
    /\ Head(queue) \notin seen_pages
    /\ queue' = Tail(queue)
    /\ url' = Head(queue)
    /\ seen_pages' = seen_pages \cup {Head(queue)}
    /\ page_url' = Head(queue)
    /\ page_idx' = 1
    /\ chain_fetches' = 0
    /\ crawl_pc' = "page"
    /\ branches_explored' = branches_explored + 1
    /\ UNCHANGED get_text_calls
    /\ UNCHANGED <<run_vars, crawl_cfg_vars, page_turns, category_fetch_failed,
                   start_fetch_failed, item_vars>>

\* The loop bound taken one too far.
PaginationOffByOne(next_idx) == next_idx <= max_pages_per_category + 1

\* for page_idx in range(1, max_pages_per_category + 1): the loop has another turn.
PaginationContinues(next_idx) == next_idx <= max_pages_per_category

\* A category page's fetch failure leaving the crawl as an exception.
FetchPageFailsRaises ==
    /\ crawl_pc = "page"
    /\ chain_fetches' = chain_fetches + 1
    /\ category_fetch_failed' = TRUE
    /\ crawl_pc' = "raised"
    /\ get_text_calls' = Called(page_url, "chain")
    /\ UNCHANGED branches_explored
    /\ UNCHANGED <<run_vars, crawl_cfg_vars, seen_pages, queue, url, page_url,
                   page_idx, page_turns, start_fetch_failed, item_vars>>

\* A category page's fetch failure giving up the branches still queued.
FetchPageFailsDropsQueue ==
    /\ crawl_pc = "page"
    /\ chain_fetches' = chain_fetches + 1
    /\ category_fetch_failed' = TRUE
    /\ failed_roots' = IF track_raw THEN failed_roots \cup {url} ELSE failed_roots
    /\ queue' = <<>>
    /\ crawl_pc' = "root"
    /\ get_text_calls' = Called(page_url, "chain")
    /\ UNCHANGED branches_explored
    /\ UNCHANGED <<run_vars, crawl_cfg_vars, seen_pages, url, page_url,
                   page_idx, page_turns, start_fetch_failed, raw, collected_items,
                   parsed_ok>>

\* One turn of the for loop whose get_text raises: break.
FetchPageFails ==
    /\ crawl_pc = "page"
    /\ chain_fetches' = chain_fetches + 1
    /\ category_fetch_failed' = TRUE
    /\ failed_roots' = IF track_raw THEN failed_roots \cup {url} ELSE failed_roots
    /\ crawl_pc' = "root"
    /\ get_text_calls' = Called(page_url, "chain")
    /\ UNCHANGED branches_explored
    /\ UNCHANGED <<run_vars, crawl_cfg_vars, seen_pages, queue, url, page_url,
                   page_idx, page_turns, start_fetch_failed, raw, collected_items,
                   parsed_ok>>

\* The next page followed even when it was visited before.
NoNextPageResolved(next_url, seen) == next_url = NULL

\* if not next_url or next_url in seen_pages: break
NoNextPage(next_url, seen) == next_url = NULL \/ next_url \in seen

\* One turn of the for loop: fetch page_url, parse, decide to stop, resolve the
\* next page and advance.
FetchPage ==
    /\ crawl_pc = "page"
    /\ chain_fetches' = chain_fetches + 1
    /\ \E its \in ItemsOfPage :
          /\ raw' = raw \o its
          /\ parsed_ok' = parsed_ok \cup Range(its)
    /\ \E page \in PageShapes, next_url \in CrawlUrls \cup {NULL} :
          IF ShouldStop(page, EarliestKeep) \/ NoNextPage(next_url, seen_pages)
          THEN /\ crawl_pc' = "root"
               /\ UNCHANGED <<seen_pages, page_url, page_idx, page_turns>>
          ELSE /\ seen_pages' = seen_pages \cup {next_url}
               /\ page_url' = next_url
               /\ page_turns' = page_turns + 1
               /\ page_idx' = page_idx + 1
               /\ crawl_pc' = IF PaginationContinues(page_idx + 1) THEN "page" ELSE "root"
    /\ get_text_calls' = Called(page_url, "chain")
    /\ UNCHANGED branches_explored
    /\ UNCHANGED <<run_vars, crawl_cfg_vars, queue, url, category_fetch_failed,
                   start_fetch_failed, collected_items, failed_roots>>

\* After the branch: root_html = http.get_text(url); new category links are queued.
\* A failure of this fetch is passed over.
RefetchRoot ==
    /\ crawl_pc = "root"
    /\ \E ok \in BOOLEAN, links \in LinkLists :
          /\ ~ok => links = <<>>
          /\ queue' = queue \o SelectSeq(links, LAMBDA u : u \notin seen_pages)
          /\ category_fetch_failed' = (category_fetch_failed \/ ~ok)
    /\ crawl_pc' = "queue"
    /\ get_text_calls' = Called(url, "root")
    /\ UNCHANGED branches_explored
    /\ UNCHANGED <<run_vars, crawl_cfg_vars, seen_pages, url, page_url, page_idx,
                   page_turns, chain_fetches, start_fetch_failed, item_vars>>

CrawlStep ==
    \/ FetchStartFails
    \/ FetchStart
    \/ CrawlReturn
    \/ PopVisited
    \/ PopBranch
    \/ FetchPageFails
    \/ FetchPage
    \/ RefetchRoot

NextCrawl == CrawlStep \/ \E r \in Runs : RunStep(r)

SpecCrawl == InitCrawl /\ [][NextCrawl]_vars

\* One sequential control flow: every collaborator call returns or raises, so
\* the run keeps taking steps while it has one to take.
SpecCrawlFair == SpecCrawl /\ WF_vars(NextCrawl)

\* ------------------------------------------------- the crawl with its items
\* _collect_list_items alone, called by a run that has opened its store: the
\* item lists of the pages are followed, in live mode and in fixture mode.
InitCollect ==
    /\ overlap = FALSE
    /\ candidates = <<>>
    /\ feishu_enabled = FALSE
    /\ feishu_notify_mode = "digest"
    /\ ai_enabled = FALSE
    /\ announcements = {}
    /\ indexes = _create_strategy_unique_index("title", {})
    /\ runs_table = start_run([r \in Runs |-> NoRun], CrawlRun)
    /\ pc = [r \in Runs |-> IF r = CrawlRun THEN "collect" ELSE "idle"]
    /\ cfg = [r \in Runs |-> IF r = CrawlRun
                                THEN [dedupe_strategy |-> "title", dry_run |-> FALSE,
                                      max_items_per_run |-> 0]
                                ELSE NoCfg]
    /\ conn_open = [r \in Runs |-> r = CrawlRun]
    /\ RunLocalsFresh
    /\ UnitsIdle
    /\ crawl_pc = "start"
    /\ cfg_max_pages_total = MaxPagesTotalCfg
    /\ cfg_max_pages_per_category = Min({2, MaxPagesPerCategoryCfg})
    /\ seen_pages = {}
    /\ queue = <<>>
    /\ url = NULL
    /\ page_url = NULL
    /\ page_idx = 0
    /\ page_turns = 0
    /\ chain_fetches = 0
    /\ category_fetch_failed = FALSE
    /\ start_fetch_failed = FALSE
    /\ use_test_fixtures \in BOOLEAN
    /\ track_raw = TRUE
    /\ raw = <<>>
    /\ collected_items = <<>>
    /\ parsed_ok = {}
    /\ failed_roots = {}
    /\ NoCallsFollowed

NextCollect == CrawlStep \/ FixtureReturn

SpecCollect == InitCollect /\ [][NextCollect]_vars

\* ------------------------------------------------- the stop rule taken alone
\* Everything but the stop rule's page at rest: no run was started, no crawl.
Quiet ==
    /\ InitRuns
    /\ CrawlOff
    /\ overlap = FALSE
    /\ candidates = <<>>
    /\ ~feishu_enabled
    /\ ~ai_enabled

\* The dates one page can carry, and the thresholds they are compared with.
PageDateSets == SUBSET DateRaws
KeepDays == (EarliestKeep - 1)..(EarliestKeep + 1)

InitStopRule ==
    /\ Quiet
    /\ ExtIdle
    /\ DbIdle
    /\ FilterIdle
    /\ HttpIdle
    /\ pg_zcpt_items \in PageDateSets
    /\ pg_notices \in PageDateSets
    /\ pg_earliest_keep \in KeepDays
    /\ pg_should_stop = "none"

\* The if zcpt_items / elif notices block of one pagination turn.
DecideStop ==
    /\ pg_should_stop = "none"
    /\ pg_should_stop' =
          IF ShouldStop([zcpt |-> pg_zcpt_items, notices |-> pg_notices],
                        pg_earliest_keep)
          THEN "stop" ELSE "continue"
    /\ UNCHANGED <<pg_zcpt_items, pg_notices, pg_earliest_keep>>
    /\ UNCHANGED <<switch_vars, store_vars, local_vars, crawl_vars, db_vars,
                   flt_vars, http_vars, ext_vars>>

\* The next page of the branch is parsed.
ParseNextPage ==
    /\ pg_should_stop = "continue"
    /\ pg_zcpt_items' \in PageDateSets
    /\ pg_notices' \in PageDateSets
    /\ pg_should_stop' = "none"
    /\ UNCHANGED pg_earliest_keep
    /\ UNCHANGED <<switch_vars, store_vars, local_vars, crawl_vars, db_vars,
                   flt_vars, http_vars, ext_vars>>

NextStopRule == DecideStop \/ ParseNextPage

SpecStopRule == InitStopRule /\ [][NextStopRule]_vars

\* ------------------------------------------------- the store taken alone
\* One store file, opened by one handle at a time and possibly reopened under
\* another strategy; stubs are inserted through the open handle.
StoreItems == {Item("T1", "U1", "D1"), Item("T1", "U2", "D2"), Item("T2", "U1", "D1")}

InitStore ==
    /\ Quiet
    /\ ExtIdle
    /\ StopIdle
    /\ DbIdle
    /\ FilterIdle
    /\ HttpIdle

\* Database(path, dedupe_strategy = s).init_schema()
OpenStore ==
    /\ db_strategy = "closed"
    /\ \E s \in Strategies :
          /\ db_strategy' = s
          /\ announcements' = _dedupe_existing_rows(s, announcements)
          /\ indexes' = _create_strategy_unique_index(s, indexes)
    /\ UNCHANGED <<insert_log, runs_table>>
    /\ UNCHANGED <<switch_vars, local_vars, crawl_vars, stop_vars, flt_vars,
                   http_vars, ext_vars>>

\* db.close()
CloseStore ==
    /\ db_strategy # "closed"
    /\ db_strategy' = "closed"
    /\ UNCHANGED <<insert_log, store_vars>>
    /\ UNCHANGED <<switch_vars, local_vars, crawl_vars, stop_vars, flt_vars,
                   http_vars, ext_vars>>

\* is_duplicate(title, url, date) followed by insert_announcement_base(title,
\* url, date, "NEW") through the open handle, no other writer in between.
CheckAndInsert ==
    /\ db_strategy # "closed"
    /\ Len(insert_log) < MaxInserts
    /\ \E it \in StoreItems :
          /\ announcements' = insert_announcement_base(indexes, announcements,
                                   it.title, it.url, it.date, "NEW")
          /\ insert_log' = Append(insert_log,
                [title |-> it.title, url |-> it.url, date |-> it.date,
                 strategy |-> db_strategy,
                 fresh |-> indexes = {db_strategy},
                 dup |-> is_duplicate(db_strategy, announcements,
                                      it.title, it.url, it.date),
                 ok |-> announcements' # announcements])
    /\ UNCHANGED <<db_strategy, indexes, runs_table>>
    /\ UNCHANGED <<switch_vars, local_vars, crawl_vars, stop_vars, flt_vars,
                   http_vars, ext_vars>>

NextStore == OpenStore \/ CloseStore \/ CheckAndInsert

SpecStore == InitStore /\ [][NextStore]_vars

\* ------------------------------------------------- the filter stage taken alone
\* Canonical dates are day numbers; a title matches the keyword pattern or not.
FilterDays == 0..MaxDay
FilterTitles == {"kw", "other"}
\* keyword_re.search(title)
KeywordMatches(title) == title = "kw"
NormalizedLists ==
    UNION {[1..k -> [title : FilterTitles, d : FilterDays]] : k \in 0..MaxNormalized}

\* base_date: today, or in fixture mode the newest canonical date of the list.
base_date(normalized, fixtures, today) ==
    IF fixtures /\ normalized # <<>>
    THEN Max({normalized[i].d : i \in DOMAIN normalized})
    ELSE today

\* lookback = cfg.days_lookback; if lookback < 1: lookback = 1
lookback_of(days_lookback) == IF days_lookback < 1 THEN 1 ELSE days_lookback

\* The window taken one day too far back.
allowed_dates_one_more(base, lookback) == {base - i : i \in 0..lookback}

\* {(base_date - timedelta(days=i)).isoformat() for i in range(lookback)}
allowed_dates(base, lookback) == {base - i : i \in 0..(lookback - 1)}

\* The loop over normalized that builds filtered.
filter_stage(normalized, fixtures, today, days_lookback) ==
    SelectSeq(normalized,
              LAMBDA it :
                  /\ it.d \in allowed_dates(base_date(normalized, fixtures, today),
                                            lookback_of(days_lookback))
                  /\ KeywordMatches(it.title))

InitFilter ==
    /\ Quiet
    /\ ExtIdle
    /\ StopIdle
    /\ DbIdle
    /\ HttpIdle
    /\ flt_normalized \in NormalizedLists
    /\ flt_today \in {MaxDay - 1, MaxDay}
    /\ flt_fixtures \in BOOLEAN
    /\ flt_days_lookback \in -1..1
    /\ flt_filtered = <<>>
    /\ flt_prev = <<>>
    /\ flt_passes = 0

\* The stage runs on the list with the configured lookback.
FilterPass ==
    /\ flt_passes = 0
    /\ flt_filtered' = filter_stage(flt_normalized, flt_fixtures, flt_today,
                                     flt_days_lookback)
    /\ flt_passes' = 1
    /\ UNCHANGED <<flt_normalized, flt_today, flt_fixtures, flt_days_lookback,
                   flt_prev>>
    /\ UNCHANGED <<switch_vars, store_vars, local_vars, crawl_vars, stop_vars,
                   db_vars, http_vars, ext_vars>>

\* The stage runs again on the same list with the lookback raised by one day.
FilterPassLonger ==
    /\ flt_passes >= 1
    /\ flt_days_lookback < MaxLookback
    /\ flt_days_lookback' = flt_days_lookback + 1
    /\ flt_prev' = flt_filtered
    /\ flt_filtered' = filter_stage(flt_normalized, flt_fixtures, flt_today,
                                     flt_days_lookback + 1)
    /\ flt_passes' = flt_passes + 1
    /\ UNCHANGED <<flt_normalized, flt_today, flt_fixtures>>
    /\ UNCHANGED <<switch_vars, store_vars, local_vars, crawl_vars, stop_vars,
                   db_vars, http_vars, ext_vars>>

NextFilter == FilterPass \/ FilterPassLonger

SpecFilter == InitFilter /\ [][NextFilter]_vars

\* ------------------------------------------------- the HTTP client taken alone
\* Every origin routed through the relay once one is configured.
RelayRoutesAll(relay, origin) == relay

\* Whether get_text goes through the relay: a relay is configured and the URL
\* is on the zcpt origin.
RelayRoutes(relay, origin) == relay /\ origin = "zcpt"

\* The request one attempt sends.  get_text: a POST of the URL's path and query
\* to the relay endpoint with the bearer token, or a GET of the URL; post_json:
\* a POST of the payload to the URL with the caller's headers.
RequestOf(fn, relay, origin) ==
    IF fn = "post_json"
    THEN [method |-> "POST", target |-> "url", auth |-> "headers", body |-> "payload"]
    ELSE IF RelayRoutes(relay, origin)
    THEN [method |-> "POST", target |-> "relay/zcpt/fetch", auth |-> "bearer",
          body |-> "path_query"]
    ELSE [method |-> "GET", target |-> "url", auth |-> "none", body |-> "none"]

\* A sleep after every failed attempt, the last one included.
SleepAfterEveryFailure(attempt, retry_count) == TRUE

\* if attempt < retry_count: time.sleep(retry_interval_ms / 1000)
SleepBeforeRetry(attempt, retry_count) == attempt < retry_count

Sleep == [method |-> "sleep", target |-> "none", auth |-> "none", body |-> "none",
          ok |-> FALSE]

Sent(req, ok) ==
    [method |-> req.method, target |-> req.target, auth |-> req.auth,
     body |-> req.body, ok |-> ok]

InitHttp ==
    /\ Quiet
    /\ ExtIdle
    /\ StopIdle
    /\ DbIdle
    /\ FilterIdle
    /\ http_fn \in {"get_text", "post_json"}
    /\ http_retry_count \in 0..MaxRetry
    /\ http_relay \in BOOLEAN
    /\ http_origin \in {"zcpt", "other"}
    /\ http_attempt = 1
    /\ http_last_err = 0
    /\ http_trace = <<>>
    /\ http_outcome = "running"

\* One turn of for attempt in range(1, retry_count + 1) whose request succeeds:
\* return resp.text (resp.json() in post_json).
AttemptSucceeds ==
    /\ http_outcome = "running"
    /\ http_attempt <= http_retry_count
    /\ http_trace' = Append(http_trace,
                            Sent(RequestOf(http_fn, http_relay, http_origin), TRUE))
    /\ http_outcome' = "returned"
    /\ UNCHANGED <<http_fn, http_retry_count, http_relay, http_origin, http_attempt,
                   http_last_err>>
    /\ UNCHANGED <<switch_vars, store_vars, local_vars, crawl_vars, stop_vars,
                   db_vars, flt_vars, ext_vars>>

\* One turn whose request or raise_for_status raises: last_err = e, the sleep
\* if another attempt follows, continue.
AttemptFails ==
    /\ http_outcome = "running"
    /\ http_attempt <= http_retry_count
    /\ http_last_err' = http_attempt
    /\ http_trace' =
          LET sent == Append(http_trace,
                             Sent(RequestOf(http_fn, http_relay, http_origin), FALSE))
          IN IF SleepBeforeRetry(http_attempt, http_retry_count)
             THEN Append(sent, Sleep) ELSE sent
    /\ http_attempt' = http_attempt + 1
    /\ UNCHANGED <<http_fn, http_retry_count, http_relay, http_origin, http_outcome>>
    /\ UNCHANGED <<switch_vars, store_vars, local_vars, crawl_vars, stop_vars,
                   db_vars, flt_vars, ext_vars>>

\* After the loop: assert last_err is not None; raise last_err
RaiseLastErr ==
    /\ http_outcome = "running"
    /\ http_attempt > http_retry_count
    /\ http_outcome' = IF http_last_err = 0 THEN "assertion" ELSE "raised"
    /\ UNCHANGED <<http_fn, http_retry_count, http_relay, http_origin, http_attempt,
                   http_last_err, http_trace>>
    /\ UNCHANGED <<switch_vars, store_vars, local_vars, crawl_vars, stop_vars,
                   db_vars, flt_vars, ext_vars>>

NextHttp == AttemptSucceeds \/ AttemptFails \/ RaiseLastErr

SpecHttp == InitHttp /\ [][NextHttp]_vars

\* ------------------------------------------- one ingest iteration taken alone
\* The try block of one iteration after the stub was inserted, and its handler,
\* with the summarizer seen at the loop's interface: it returns a text, the
\* sentinel or the empty string, or it raises.
InitDetail ==
    /\ Quiet
    /\ StopIdle
    /\ DbIdle
    /\ FilterIdle
    /\ HttpIdle
    /\ MoreIdle
    /\ DigestIdle
    /\ TaskIdle
    /\ ThrottleIdle
    /\ det_fail_at \in {"none", "fetch", "extract", "summarize"}
    /\ det_content \in {"", "text"}
    /\ det_summarizer \in {"none", "ai", Sentinel, ""}
    /\ det_fail_at = "summarize" => (det_content # "" /\ det_summarizer # "none")
    /\ det_notify \in {"off", "digest", "per_item_ok", "per_item_fails"}
    /\ det_row = StubRow
    /\ det_errors = <<>>
    /\ det_buffered = FALSE

DetailIteration ==
    /\ det_row = StubRow
    /\ IF det_fail_at # "none"
       THEN /\ det_row' = [content |-> "", ai_summary |-> Sentinel, status |-> "FAILED"]
            /\ det_errors' = <<"item_failed">>
            /\ det_buffered' = FALSE
       ELSE /\ det_row' = [content |-> det_content,
                           ai_summary |-> LoopSummary(det_content,
                                                      det_summarizer # "none",
                                                      det_summarizer),
                           status |-> "PROCESSED"]
            /\ det_errors' = IF det_notify = "per_item_fails"
                             THEN <<"feishu_send_failed">> ELSE <<>>
            /\ det_buffered' = (det_notify = "digest")
    /\ UNCHANGED <<det_fail_at, det_content, det_summarizer, det_notify>>
    /\ UNCHANGED <<switch_vars, store_vars, local_vars, crawl_vars, stop_vars,
                   db_vars, flt_vars, http_vars, dg_vars, tk_vars, thr_vars, more_vars>>

NextDetail == DetailIteration

SpecDetail == InitDetail /\ [][NextDetail]_vars

\* ------------------------------------------- the crawl with its calls counted
\* _collect_list_items alone in live mode, every call of http.get_text counted.
InitCalls ==
    /\ overlap = FALSE
    /\ candidates = <<>>
    /\ feishu_enabled = FALSE
    /\ feishu_notify_mode = "digest"
    /\ ai_enabled = FALSE
    /\ announcements = {}
    /\ indexes = _create_strategy_unique_index("title", {})
    /\ runs_table = start_run([r \in Runs |-> NoRun], CrawlRun)
    /\ pc = [r \in Runs |-> IF r = CrawlRun THEN "collect" ELSE "idle"]
    /\ cfg = [r \in Runs |-> IF r = CrawlRun
                                THEN [dedupe_strategy |-> "title", dry_run |-> FALSE,
                                      max_items_per_run |-> 0]
                                ELSE NoCfg]
    /\ conn_open = [r \in Runs |-> r = CrawlRun]
    /\ RunLocalsFresh
    /\ UnitsIdle
    /\ crawl_pc = "start"
    /\ cfg_max_pages_total \in 0..MaxPagesTotalCfg
    /\ cfg_max_pages_per_category \in 0..MaxPagesPerCategoryCfg
    /\ seen_pages = {}
    /\ queue = <<>>
    /\ url = NULL
    /\ page_url = NULL
    /\ page_idx = 0
    /\ page_turns = 0
    /\ chain_fetches = 0
    /\ category_fetch_failed = FALSE
    /\ start_fetch_failed = FALSE
    /\ use_test_fixtures = FALSE
    /\ track_raw = FALSE
    /\ raw = <<>>
    /\ collected_items = <<>>
    /\ parsed_ok = {}
    /\ failed_roots = {}
    /\ track_calls = TRUE
    /\ branches_explored = 0
    /\ get_text_calls = NoCalls

NextCalls == CrawlStep

SpecCalls == InitCalls /\ [][NextCalls]_vars

\* --------------------------------------------- the end-of-run digest taken alone
\* The digest branch of the end-of-run notification: the buffer is sent in
\* chunks; a send that raises ends the loop (except Exception: pass).
chunk_size == 10

\* The buffered items are told apart by their position in the buffer.
Buffers == {[n \in 1..k |-> n] : k \in 0..MaxBuffered}

\* The chunk's upper bound left unclipped.
range_end_unclipped(i, total_items) == i + chunk_size

\* range_start = i + 1; range_end = min(i + chunk_size, total_items)
range_start(i) == i + 1
range_end(i, total_items) == Min({i + chunk_size, total_items})

\* new_items[i : i + chunk_size]
ChunkOf(items, i) == SubSeq(items, i + 1, Min({i + chunk_size, Len(items)}))

\* build_digest_card(items = ..., range_start, range_end, total_items)
DigestCard(items, i) ==
    [items |-> ChunkOf(items, i),
     range_start |-> range_start(i),
     range_end |-> range_end(i, Len(items)),
     total_items |-> Len(items)]

InitDigest ==
    /\ Quiet
    /\ StopIdle
    /\ DbIdle
    /\ FilterIdle
    /\ HttpIdle
    /\ MoreIdle
    /\ DetailIdle
    /\ TaskIdle
    /\ ThrottleIdle
    /\ dg_new_items \in Buffers
    /\ dg_i = 0
    /\ dg_cards = <<>>
    /\ dg_pc = "loop"

\* One turn of the for loop whose send_card returns.
DigestSend ==
    /\ dg_pc = "loop"
    /\ dg_i < Len(dg_new_items)
    /\ dg_cards' = Append(dg_cards, DigestCard(dg_new_items, dg_i))
    /\ dg_i' = dg_i + chunk_size
    /\ UNCHANGED <<dg_new_items, dg_pc>>
    /\ UNCHANGED <<switch_vars, store_vars, local_vars, crawl_vars, stop_vars,
                   db_vars, flt_vars, http_vars, det_vars, tk_vars, thr_vars, more_vars>>

\* One turn whose send_card raises: the exception ends the loop and is passed over.
DigestSendFails ==
    /\ dg_pc = "loop"
    /\ dg_i < Len(dg_new_items)
    /\ dg_pc' = "failed"
    /\ UNCHANGED <<dg_new_items, dg_i, dg_cards>>
    /\ UNCHANGED <<switch_vars, store_vars, local_vars, crawl_vars, stop_vars,
                   db_vars, flt_vars, http_vars, det_vars, tk_vars, thr_vars, more_vars>>

\* The range is exhausted.
DigestDone ==
    /\ dg_pc = "loop"
    /\ dg_i >= Len(dg_new_items)
    /\ dg_pc' = "done"
    /\ UNCHANGED <<dg_new_items, dg_i, dg_cards>>
    /\ UNCHANGED <<switch_vars, store_vars, local_vars, crawl_vars, stop_vars,
                   db_vars, flt_vars, http_vars, det_vars, tk_vars, thr_vars, more_vars>>

NextDigest == DigestSend \/ DigestSendFails \/ DigestDone

SpecDigest == InitDigest /\ [][NextDigest]_vars

\* ------------------------------------------------------ the task table taken alone
\* Columns name, cron_expr and interval_seconds are written and read exactly as
\* schedule_type is and are left out.
TaskIds == {"t1", "t2"}
ScheduleTypes == {"cron", "interval"}
Configs == {<<>>, <<"DAYS_LOOKBACK", "7">>}

\* json.dumps(config) and json.loads(config_json)
json_dumps(config) == [text |-> config]
json_loads(config_json) == config_json.text

\* 1 if enabled else 0, and bool(...)
to_int(enabled) == IF enabled THEN 1 ELSE 0
bool(n) == n # 0

TaskRow(task_id, enabled, schedule_type, config, created_at, updated_at) ==
    [task_id |-> task_id, enabled |-> to_int(enabled),
     schedule_type |-> schedule_type, config_json |-> json_dumps(config),
     created_at |-> created_at, updated_at |-> updated_at]

\* INSERT without the ON CONFLICT clause and without the primary key.
upsert_always_inserts(tasks, task_id, enabled, schedule_type, config, now) ==
    tasks \cup {TaskRow(task_id, enabled, schedule_type, config, now, now)}

\* INSERT ... ON CONFLICT(task_id) DO UPDATE SET every column but created_at
upsert_task(tasks, task_id, enabled, schedule_type, config, now) ==
    IF \E row \in tasks : row.task_id = task_id
    THEN {IF row.task_id = task_id
             THEN TaskRow(task_id, enabled, schedule_type, config, row.created_at, now)
             ELSE row : row \in tasks}
    ELSE tasks \cup {TaskRow(task_id, enabled, schedule_type, config, now, now)}

\* UPDATE tasks SET enabled = ?, updated_at = ? WHERE task_id = ?
set_task_enabled(tasks, task_id, enabled, now) ==
    {IF row.task_id = task_id
        THEN [row EXCEPT !.enabled = to_int(enabled), !.updated_at = now]
        ELSE row : row \in tasks}

\* DELETE FROM tasks WHERE task_id = ?
delete_task(tasks, task_id) == {row \in tasks : row.task_id # task_id}

\* get_task: the dicts that fetchone can give; none stands for None.
get_task(tasks, task_id) ==
    {[task_id |-> row.task_id, enabled |-> bool(row.enabled),
      schedule_type |-> row.schedule_type, config |-> json_loads(row.config_json)] :
        row \in {x \in tasks : x.task_id = task_id}}

\* list_tasks: the lists that ORDER BY updated_at DESC can give.
list_tasks(tasks) ==
    {q \in InjSeqs(tasks, Cardinality(tasks)) :
        /\ Len(q) = Cardinality(tasks)
        /\ \A i, j \in DOMAIN q : i < j => q[i].updated_at >= q[j].updated_at}

InitTasks ==
    /\ Quiet
    /\ StopIdle
    /\ DbIdle
    /\ FilterIdle
    /\ HttpIdle
    /\ MoreIdle
    /\ DetailIdle
    /\ DigestIdle
    /\ ThrottleIdle
    /\ tk_tasks = {}
    /\ tk_now = 0
    /\ tk_last = NoTaskCall

TaskFrame ==
    UNCHANGED <<switch_vars, store_vars, local_vars, crawl_vars, stop_vars,
                db_vars, flt_vars, http_vars, det_vars, dg_vars, thr_vars, more_vars>>

\* A second passes.
TickSecond ==
    /\ tk_now < MaxClock
    /\ tk_now' = tk_now + 1
    /\ UNCHANGED <<tk_tasks, tk_last>>
    /\ TaskFrame

UpsertTask ==
    /\ \E task_id \in TaskIds, enabled \in BOOLEAN,
          schedule_type \in ScheduleTypes, config \in Configs :
        /\ tk_tasks' = upsert_task(tk_tasks, task_id, enabled, schedule_type,
                                   config, tk_now)
        /\ tk_last' = TaskCall("upsert", task_id, enabled, schedule_type, config)
    /\ UNCHANGED tk_now
    /\ TaskFrame

SetTaskEnabled ==
    /\ \E task_id \in TaskIds, enabled \in BOOLEAN :
        /\ tk_tasks' = set_task_enabled(tk_tasks, task_id, enabled, tk_now)
        /\ tk_last' = TaskCall("set_enabled", task_id, enabled, NULL, <<>>)
    /\ UNCHANGED tk_now
    /\ TaskFrame

DeleteTask ==
    /\ \E task_id \in TaskIds :
        /\ tk_tasks' = delete_task(tk_tasks, task_id)
        /\ tk_last' = TaskCall("delete", task_id, FALSE, NULL, <<>>)
    /\ UNCHANGED tk_now
    /\ TaskFrame

NextTasks == TickSecond \/ UpsertTask \/ SetTaskEnabled \/ DeleteTask

SpecTasks == InitTasks /\ [][NextTasks]_vars

\* ------------------------------------------- the inter-item delay taken alone
\* How an iteration of the ingest loop ends: the first four leave by continue.
ItemKinds == {"duplicate", "dry_run", "race_duplicate", "failed", "processed"}

\* current_delay = max(cfg.loop_delay_seconds, 0.0)
initial_delay(c) == Max({c.loop_delay_seconds, 0})

\* The throttle step at the end of the loop body, reached only by an iteration
\* that did not continue.
throttle_step(c, kind, total, delay) ==
    IF /\ kind = "processed"
       /\ c.adaptive /\ c.batch_size > 0 /\ total % c.batch_size = 0
    THEN Min({c.max_loop_delay_seconds,
              delay + Max({c.delay_increment_seconds, 0})})
    ELSE delay

InitThrottle ==
    /\ Quiet
    /\ StopIdle
    /\ DbIdle
    /\ FilterIdle
    /\ HttpIdle
    /\ MoreIdle
    /\ DetailIdle
    /\ DigestIdle
    /\ TaskIdle
    /\ \E loop_delay \in -1..(MaxDelay + 1), max_loop_delay \in 0..MaxDelay,
          delay_increment \in -1..1, batch \in 0..2, adaptive \in BOOLEAN :
        /\ thr_cfg = ThrottleCfg(loop_delay, max_loop_delay, delay_increment,
                                 batch, adaptive)
        /\ thr_current_delay = initial_delay(thr_cfg)
    /\ thr_total_processed = 0
    /\ thr_kind = "none"

\* One iteration of the loop: the counters count it, and the throttle step is
\* taken or skipped.
ThrottledItem ==
    /\ thr_total_processed < MaxThrottled
    /\ \E kind \in ItemKinds :
        /\ thr_kind' = kind
        /\ thr_total_processed' = thr_total_processed + 1
        /\ thr_current_delay' = throttle_step(thr_cfg, kind, thr_total_processed + 1,
                                              thr_current_delay)
    /\ UNCHANGED thr_cfg
    /\ UNCHANGED <<switch_vars, store_vars, local_vars, crawl_vars, stop_vars,
                   db_vars, flt_vars, http_vars, det_vars, dg_vars, tk_vars, more_vars>>

NextThrottle == ThrottledItem

SpecThrottle == InitThrottle /\ [][NextThrottle]_vars

\* ---------------------------------- the date handling of the filter stage alone
\* The units specified above this line, at rest and left alone.
OldUnitsIdle ==
    /\ Quiet
    /\ StopIdle
    /\ DbIdle
    /\ FilterIdle
    /\ HttpIdle
    /\ DetailIdle
    /\ DigestIdle
    /\ TaskIdle
    /\ ThrottleIdle

OldFrame ==
    UNCHANGED <<switch_vars, store_vars, local_vars, crawl_vars, stop_vars,
                db_vars, flt_vars, http_vars, det_vars, dg_vars, tk_vars, thr_vars>>

\* A date_raw text after strip and removal of brackets: its shape (YYYY-MM-DD,
\* YYYY/MM/DD, MM-DD, or none of these) and the month and day digits it shows.
\* Years are counted from the current one (0), which is not a leap year.
RawDate(shape, m, d) == [shape |-> shape, m |-> m, d |-> d]
RawDates ==
    {RawDate(shape, m, d) : shape \in {"dash", "slash", "mmdd"},
                            m \in {2, 3, 13}, d \in {1, 28, 30}}
        \cup {RawDate("other", 0, 0)}

\* A canonical text YYYY-MM-DD.
IsoText(y, m, d) == [y |-> y, m |-> m, d |-> d]
NoDate == IsoText(0, 0, 0)

\* normalize_date: the three shapes give YYYY-MM-DD with the digits as found
\* (MM-DD takes now.year); anything else gives None.
normalize_date(raw_date) ==
    IF raw_date.shape \in {"dash", "slash", "mmdd"}
    THEN IsoText(0, raw_date.m, raw_date.d)
    ELSE NoDate

\* Days of month m of the current year.
DaysIn(m) == IF m = 2 THEN 28 ELSE IF m \in {4, 6, 9, 11} THEN 30 ELSE 31

\* date.fromisoformat(text) returns (TRUE) or raises ValueError (FALSE).
fromisoformat_ok(text) ==
    /\ text.m \in 1..12
    /\ text.d \in 1..DaysIn(text.m)

\* String order of two canonical texts.
TextLeq(a, b) ==
    \/ a.y < b.y
    \/ a.y = b.y /\ a.m < b.m
    \/ a.y = b.y /\ a.m = b.m /\ a.d <= b.d

\* max(d for _, _, d in normalized)
MaxText(texts) == CHOOSE b \in texts : \A a \in texts : TextLeq(a, b)

\* date - timedelta(days=1), as a canonical text
DayBefore(t) ==
    IF t.d > 1 THEN IsoText(t.y, t.m, t.d - 1)
    ELSE IF t.m > 1 THEN IsoText(t.y, t.m - 1, DaysIn(t.m - 1))
    ELSE IsoText(t.y - 1, 12, 31)

\* {(base_date - timedelta(days=i)).isoformat() for i in range(lookback)}
RECURSIVE DaysBack(_, _)
DaysBack(base, n) ==
    IF n <= 0 THEN {} ELSE {base} \cup DaysBack(DayBefore(base), n - 1)

\* recent.today
TodayText == IsoText(0, 3, 1)

\* normalized: the raw items that normalize_date does not drop
Normalized(raw_dates) ==
    LET texts == [i \in DOMAIN raw_dates |-> normalize_date(raw_dates[i])]
    IN SelectSeq(texts, LAMBDA t : t # NoDate)

\* The reference text: the latest normalized text in fixture mode, else today.
BaseText(normalized, fixtures) ==
    IF fixtures /\ normalized # <<>> THEN MaxText(Range(normalized)) ELSE TodayText

\* The filter stage by dates: base_date = date.fromisoformat(...) raises, or the
\* items whose text is in allowed_dates are kept.
DateStage(raw_dates, fixtures, days_lookback) ==
    LET normalized == Normalized(raw_dates)
        base == BaseText(normalized, fixtures)
        lookback == IF days_lookback < 1 THEN 1 ELSE days_lookback
    IN IF ~fromisoformat_ok(base)
       THEN [outcome |-> "raised", kept |-> <<>>]
       ELSE [outcome |-> "filtered",
             kept |-> SelectSeq(normalized, LAMBDA t : t \in DaysBack(base, lookback))]

InitDates ==
    /\ OldUnitsIdle
    /\ LogsIdle
    /\ nd_raw_dates \in UNION {[1..k -> RawDates] : k \in 0..MaxRawDates}
    /\ nd_fixtures \in BOOLEAN
    /\ nd_days_lookback \in 0..2
    /\ nd_result = [outcome |-> "none", kept |-> <<>>]

FilterDates ==
    /\ nd_result.outcome = "none"
    /\ nd_result' = DateStage(nd_raw_dates, nd_fixtures, nd_days_lookback)
    /\ UNCHANGED <<nd_raw_dates, nd_fixtures, nd_days_lookback>>
    /\ UNCHANGED lg_vars
    /\ OldFrame

NextDates == FilterDates

SpecDates == InitDates /\ [][NextDates]_vars

\* ------------------------------------------- the log buffers of the web UI
\* One task's TaskRuntime with its _run_task_job threads, or one LiveRun with its
\* worker thread, and a client streaming it. Blocks under the manager's lock are
\* single steps; the generator reads the runtime's fields without the lock.

\* The length the buffers are cut to (2000 in the source).
MaxLines == 3
\* The lines appended in one behaviour.
MaxAppended == 5

NextLine == appended + 1

\* r.lines.append(line); if len(r.lines) > 2000: r.lines = r.lines[-2000:]
\* The list after append, and the list the attribute is bound to afterwards.
Rebinds(lines) == Len(lines) + 1 > MaxLines
append_line(lines, line) ==
    LET l == Append(lines, line)
    IN  IF Len(l) > MaxLines THEN SubSeq(l, Len(l) - MaxLines + 1, Len(l)) ELSE l

\* What one append means to a connected generator: the line is owed to it, and
\* if the attribute was rebound while it held the list, it keeps the old list
\* (which received the line before the slice was taken).
BufferWrite(old_list_after, rebound) ==
    /\ appended' = appended + 1
    /\ gen_owed' = IF gen_pc \in {"load", "drain", "check"}
                   THEN Append(gen_owed, NextLine) ELSE gen_owed
    /\ IF gen_pc = "drain" /\ ~gen_stale /\ rebound
       THEN gen_stale' = TRUE /\ gen_lines' = old_list_after
       ELSE UNCHANGED <<gen_stale, gen_lines>>
    /\ UNCHANGED <<log_kind, gen_pc, gen_last, gen_out>>

LogsFrame == OldFrame /\ UNCHANGED nd_vars

\* ---- TaskScheduler._run_task_job
\* if rt.running: under the lock
NeverSkips(running) == FALSE
AlreadyRunning(running) == running

\* No thread of the slot runs: none was started, or the last one skipped or ended.
JobRest == {"idle", "skipped", "done"}

\* The locked block that creates the runtime if missing and either skips or
\* marks the task running.
RunTaskJobEnter(j) ==
    /\ log_kind = "task"
    /\ job_pc[j] \in JobRest
    /\ appended < MaxAppended
    /\ IF AlreadyRunning(rt_running)
       THEN /\ rt_lines' = Append(rt_lines, NextLine)
            /\ job_pc' = [job_pc EXCEPT ![j] = "skipped"]
            /\ UNCHANGED <<rt_running, rt_last_status>>
       ELSE /\ rt_running' = TRUE
            /\ rt_last_status' = "RUNNING"
            /\ rt_lines' = Append(rt_lines, NextLine)
            /\ job_pc' = [job_pc EXCEPT ![j] = "popen"]
    /\ BufferWrite(rt_lines', FALSE)
    /\ UNCHANGED <<rt_proc, active_procs, live_vars>>
    /\ LogsFrame

\* subprocess.Popen raised
PopenFails(j) ==
    /\ job_pc[j] = "popen"
    /\ appended < MaxAppended
    /\ rt_running' = FALSE
    /\ rt_last_status' = "FAILED"
    /\ rt_lines' = Append(rt_lines, NextLine)
    /\ job_pc' = [job_pc EXCEPT ![j] = "done"]
    /\ BufferWrite(rt_lines', FALSE)
    /\ UNCHANGED <<rt_proc, active_procs, live_vars>>
    /\ LogsFrame

\* subprocess.Popen returned: the process runs
PopenStarts(j) ==
    /\ job_pc[j] = "popen"
    /\ active_procs' = active_procs \cup {j}
    /\ job_pc' = [job_pc EXCEPT ![j] = "setproc"]
    /\ UNCHANGED <<rt_running, rt_last_status, rt_proc, rt_lines, live_vars,
                   log_kind, appended, gen_vars>>
    /\ LogsFrame

\* with self._lock: rt.proc = proc
SetProc(j) ==
    /\ job_pc[j] = "setproc"
    /\ rt_proc' = j
    /\ job_pc' = [job_pc EXCEPT ![j] = "reading"]
    /\ UNCHANGED <<rt_running, rt_last_status, rt_lines, active_procs, live_vars,
                   log_kind, appended, gen_vars>>
    /\ LogsFrame

\* for line in proc.stdout: self._append_line(task_id, line)
AppendLine(j) ==
    /\ job_pc[j] = "reading"
    /\ appended < MaxAppended
    /\ rt_lines' = append_line(rt_lines, NextLine)
    /\ BufferWrite(Append(rt_lines, NextLine), Rebinds(rt_lines))
    /\ UNCHANGED <<rt_running, rt_last_status, rt_proc, job_pc, active_procs,
                   live_vars>>
    /\ LogsFrame

\* the process ends: stdout is at its end and proc.wait() returns
ProcExits(j) ==
    /\ job_pc[j] = "reading"
    /\ active_procs' = active_procs \ {j}
    /\ job_pc' = [job_pc EXCEPT ![j] = "exited"]
    /\ UNCHANGED <<rt_running, rt_last_status, rt_proc, rt_lines, live_vars,
                   log_kind, appended, gen_vars>>
    /\ LogsFrame

\* the locked block after proc.wait()
RunTaskJobDone(j) ==
    /\ job_pc[j] = "exited"
    /\ appended < MaxAppended
    /\ \E code \in {0, 1} :
          rt_last_status' = IF code = 0 THEN "COMPLETED" ELSE "FAILED"
    /\ rt_running' = FALSE
    /\ rt_proc' = NoProc
    /\ rt_lines' = Append(rt_lines, NextLine)
    /\ job_pc' = [job_pc EXCEPT ![j] = "done"]
    /\ BufferWrite(rt_lines', FALSE)
    /\ UNCHANGED <<active_procs, live_vars>>
    /\ LogsFrame

\* ---- RunManager.start: worker
\* _append(run_id, line)
LiveAppend ==
    /\ appended < MaxAppended
    /\ live_lines' = append_line(live_lines, NextLine)
    /\ BufferWrite(Append(live_lines, NextLine), Rebinds(live_lines))

\* Popen raised: the worker logs it, then finishes the run as FAILED
WorkerPopenFails ==
    /\ worker_pc = "popen"
    /\ LiveAppend
    /\ worker_pc' = "start_failed"
    /\ UNCHANGED <<live_status, live_done, rt_vars>>
    /\ LogsFrame

WorkerPopenStarts ==
    /\ worker_pc = "popen"
    /\ worker_pc' = "reading"
    /\ UNCHANGED <<live_status, live_lines, live_done, rt_vars,
                   log_kind, appended, gen_vars>>
    /\ LogsFrame

WorkerAppend ==
    /\ worker_pc = "reading"
    /\ LiveAppend
    /\ UNCHANGED <<live_status, live_done, worker_pc, rt_vars>>
    /\ LogsFrame

WorkerWait ==
    /\ worker_pc = "reading"
    /\ worker_pc' = "exited"
    /\ UNCHANGED <<live_status, live_lines, live_done, rt_vars,
                   log_kind, appended, gen_vars>>
    /\ LogsFrame

\* _finish(run_id, status)
WorkerFinish ==
    /\ worker_pc \in {"start_failed", "exited"}
    /\ \E code \in {0, 1} :
          live_status' = IF code = 0 /\ worker_pc = "exited"
                         THEN "COMPLETED" ELSE "FAILED"
    /\ live_done' = TRUE
    /\ worker_pc' = "ended"
    /\ UNCHANGED <<live_lines, rt_vars, log_kind, appended, gen_vars>>
    /\ LogsFrame

\* ---- stream_task and stream_run: gen()
\* The list the generator's local lines refers to, and the buffer attribute.
Buffer == IF log_kind = "task" THEN rt_lines ELSE live_lines
GenView == IF gen_stale THEN gen_lines ELSE Buffer

\* stream_task: rt = get_runtime(task_id); if not rt
NotFound == log_kind = "task" /\ rt_last_status = "none"

\* stream_task: not rt.running and rt.last_status in {COMPLETED, FAILED};
\* stream_run: r.done
StreamFinished ==
    IF log_kind = "task"
    THEN ~rt_running /\ rt_last_status \in {"COMPLETED", "FAILED"}
    ELSE live_done

\* A client opens the stream: last = 0
GenStart ==
    /\ log_kind # "none"
    /\ gen_pc = "none"
    /\ gen_pc' = "load"
    /\ gen_last' = 0
    /\ gen_owed' = Buffer
    /\ UNCHANGED <<gen_lines, gen_stale, gen_out, log_kind, appended, rt_vars,
                   live_vars>>
    /\ LogsFrame

\* The head of the while True loop: look the runtime up (the end event
\* not_found if there is none), lines = r.lines
GenLoad ==
    /\ gen_pc = "load"
    /\ gen_pc' = IF NotFound THEN "ended" ELSE "drain"
    /\ UNCHANGED <<gen_out, gen_last, gen_lines, gen_stale, gen_owed, log_kind, appended,
                   rt_vars, live_vars>>
    /\ LogsFrame

\* while last < len(lines): yield lines[last]; last += 1
GenYield ==
    /\ gen_pc = "drain"
    /\ gen_last < Len(GenView)
    /\ gen_out' = Append(gen_out, GenView[gen_last + 1])
    /\ gen_last' = gen_last + 1
    /\ UNCHANGED <<gen_pc, gen_lines, gen_stale, gen_owed, log_kind, appended,
                   rt_vars, live_vars>>
    /\ LogsFrame

\* the inner loop's test fails
GenDrained ==
    /\ gen_pc = "drain"
    /\ gen_last >= Len(GenView)
    /\ gen_pc' = "check"
    /\ gen_lines' = <<>>
    /\ gen_stale' = FALSE
    /\ UNCHANGED <<gen_last, gen_out, gen_owed, log_kind, appended, rt_vars,
                   live_vars>>
    /\ LogsFrame

\* the end test: yield the end event and return, else time.sleep(0.5) and the
\* next turn
GenCheck ==
    /\ gen_pc = "check"
    /\ gen_pc' = IF StreamFinished THEN "ended" ELSE "load"
    /\ UNCHANGED <<gen_out, gen_last, gen_lines, gen_stale, gen_owed, log_kind, appended,
                   rt_vars, live_vars>>
    /\ LogsFrame

InitLogs ==
    /\ OldUnitsIdle
    /\ DateIdle
    /\ log_kind \in {"task", "run"}
    /\ appended = 0
    /\ rt_running = FALSE
    /\ rt_last_status = "none"
    /\ rt_proc = NoProc
    /\ rt_lines = <<>>
    /\ job_pc = [j \in Jobs |-> "idle"]
    /\ active_procs = {}
    /\ live_status = IF log_kind = "run" THEN "RUNNING" ELSE "none"
    /\ live_lines = <<>>
    /\ live_done = FALSE
    /\ worker_pc = IF log_kind = "run" THEN "popen" ELSE "none"
    /\ gen_pc = "none"
    /\ gen_last = 0
    /\ gen_lines = <<>>
    /\ gen_stale = FALSE
    /\ gen_out = <<>>
    /\ gen_owed = <<>>

NextLogs ==
    \/ \E j \in Jobs :
          \/ RunTaskJobEnter(j)
          \/ PopenFails(j)
          \/ PopenStarts(j)
          \/ SetProc(j)
          \/ AppendLine(j)
          \/ ProcExits(j)
          \/ RunTaskJobDone(j)
    \/ WorkerPopenFails
    \/ WorkerPopenStarts
    \/ WorkerAppend
    \/ WorkerWait
    \/ WorkerFinish
    \/ GenStart
    \/ GenLoad
    \/ GenYield
    \/ GenDrained
    \/ GenCheck

SpecLogs == InitLogs /\ [][NextLogs]_vars

\* ================================================================ properties

NewOutcomes == {"new_dry", "new_processed", "new_failed"}
Last(q) == q[Len(q)]
Count(q, x) == Cardinality({i \in DOMAIN q : q[i] = x})

\* The candidates run r goes through: all of the list, or its first
\* max_items_per_run entries.
ProcessedCount(r) ==
    IF cfg[r].max_items_per_run > 0 /\ cfg[r].max_items_per_run < Len(filtered[r])
    THEN cfg[r].max_items_per_run
    ELSE Len(filtered[r])

Completed(r) == report[r].status = "COMPLETED"

\* C1: the counters add up, total_new + total_duplicate = total_processed, in the
\* loop's variables between store calls, in the values finish_run wrote to the
\* Run row and in the returned report, whichever way the run ended, race
\* downgrades and failed items included.
C1_CountersAddUp ==
    \A r \in Runs :
        /\ total_new[r] + total_duplicate[r] = total_processed[r]
        /\ runs_table[r].total_new + runs_table[r].total_duplicate
               = runs_table[r].total_processed
        /\ Returned(r) =>
               report[r].total_new + report[r].total_duplicate
                   = report[r].total_processed

\* One run completed after a race downgrade and a failed item, the other ended
\* FAILED with a candidate already counted.
C1_Witness ==
    \E r, q \in Runs :
        /\ Completed(r)
        /\ "race_duplicate" \in Range(outcome[r])
        /\ "new_failed" \in Range(outcome[r])
        /\ Returned(q)
        /\ report[q].status = "FAILED"
        /\ runs_table[q].total_processed >= 1

\* C2: a non-dry run that follows a completed non-dry run of the same
\* configuration over the same candidate list, with no other writer, counts no
\* candidate new and every processed candidate duplicate, under each strategy
\* and also when items of the first run ended FAILED.
C2_SecondRunAllDuplicates ==
    \A q, r \in Runs :
        ( /\ q \in prior_done[r]
          /\ Completed(q)
          /\ Completed(r)
          /\ cfg[q] = cfg[r]
          /\ ~cfg[r].dry_run
          /\ filtered[q] = filtered[r] )
        => /\ report[r].total_new = 0
           /\ report[r].total_duplicate = ProcessedCount(r)
           /\ report[r].total_processed = ProcessedCount(r)

\* The second run found two duplicates after a first run with a failed item.
C2_Witness ==
    \E q, r \in Runs :
        /\ q \in prior_done[r]
        /\ Completed(q)
        /\ Completed(r)
        /\ cfg[q] = cfg[r]
        /\ ~cfg[r].dry_run
        /\ filtered[q] = filtered[r]
        /\ "new_failed" \in Range(outcome[q])
        /\ report[r].total_duplicate = 2

\* C3: finish_run runs exactly once in every run, whether the run ended through
\* the loop, through the zero-items return or through the outer handler, and a
\* Run row that is COMPLETED stays COMPLETED.
C3_FinishRunOnce ==
    /\ [](\A r \in Runs :
            /\ finish_calls[r] <= 1
            /\ pc[r] \in Ended => finish_calls[r] = 1)
    /\ [][\A r \in Runs :
            runs_table[r].status = "COMPLETED" => runs_table'[r].status = "COMPLETED"]_vars

\* One run ended FAILED, the other COMPLETED although its end-of-run send failed;
\* each called finish_run once.
C3_Witness ==
    \E r, q \in Runs :
        /\ Returned(r)
        /\ report[r].status = "FAILED"
        /\ finish_calls[r] = 1
        /\ Completed(q)
        /\ feishu_notify_mode = "digest"
        /\ notify_failed[q]
        /\ finish_calls[q] = 1

\* C4: when the detail stage of a new candidate raises, the step of the item
\* handler leaves the candidate's row FAILED with empty content and the sentinel
\* summary, leaves the counters as they were (the candidate stays counted), moves
\* on to the next candidate and leaves the run RUNNING; and a run with failed
\* items, if no store call raised, ends COMPLETED with those items in total_new.
C4_ItemFailureIsolated ==
    /\ [][\A r \in Runs :
            ( /\ pc[r] = "detail"
              /\ pc'[r] = "loop"
              /\ Last(outcome'[r]) = "new_failed" )
            => /\ \E row \in announcements' :
                     /\ row.title = CurrentItem(r).title
                     /\ row.url = CurrentItem(r).url
                     /\ row.date = CurrentItem(r).date
                     /\ row.status = "FAILED"
                     /\ row.content = ""
                     /\ row.ai_summary = Sentinel
               /\ total_new'[r] = total_new[r]
               /\ total_new[r] >= 1
               /\ total_processed'[r] = total_processed[r]
               /\ total_duplicate'[r] = total_duplicate[r]
               /\ idx'[r] = idx[r] + 1
               /\ runs_table'[r].status = "RUNNING"]_vars
    /\ [](\A r \in Runs :
            ( /\ pc[r] \in Ended
              /\ ~store_raised[r]
              /\ "new_failed" \in Range(outcome[r]) )
            => /\ runs_table[r].status = "COMPLETED"
               /\ Completed(r)
               /\ report[r].total_new >= Count(outcome[r], "new_failed")
               /\ report[r].total_processed = Len(outcome[r]))

\* A run completed whose first candidate failed and whose second was processed.
C4_Witness ==
    \E r \in Runs :
        /\ Completed(r)
        /\ outcome[r] = <<"new_failed", "new_processed">>
        /\ report[r].total_new = 2
        /\ \E row \in announcements : row.status = "FAILED"

\* C5: a run is FAILED exactly when an exception escaped its crawl, filter and
\* ingest sequence, which is when the start page could not be fetched or a store
\* call of the loop raised; the Run row and the returned report then carry the
\* error text.  Failed category pages and failed items do not make a run FAILED.
C5_FailedIffEscapes ==
    \A r \in Runs :
        LET escaped == \/ r = CrawlRun /\ start_fetch_failed /\ pc[r] # "collect"
                       \/ store_raised[r]
        IN /\ runs_table[r].status = "FAILED" <=> escaped
           /\ runs_table[r].status = "FAILED" => runs_table[r].error = "traceback"
           /\ Returned(r) =>
                  IF escaped
                  THEN report[r].status = "FAILED" /\ report[r].error = "traceback"
                  ELSE report[r].status = "COMPLETED"

\* The start page could not be fetched and the run returned a FAILED report.
C5_Witness ==
    /\ start_fetch_failed
    /\ Returned(CrawlRun)
    /\ report[CrawlRun].status = "FAILED"
    /\ report[CrawlRun].error = "traceback"
    /\ runs_table[CrawlRun].status = "FAILED"
    /\ runs_table[CrawlRun].error = "traceback"

\* C6: when two concurrent non-dry runs of one strategy have both completed, then
\* for every dedupe key that both processed the store holds exactly one row and
\* exactly one processed candidate with that key, over both runs, is counted new.
C6_OneRowOneNew ==
    \A r, q \in Runs :
        ( /\ r # q
          /\ Completed(r)
          /\ Completed(q)
          /\ ~cfg[r].dry_run
          /\ ~cfg[q].dry_run
          /\ cfg[r].dedupe_strategy = cfg[q].dedupe_strategy )
        => LET s == cfg[r].dedupe_strategy
               KeyAt(p, n) == DedupeKey(s, filtered[p][n].title, filtered[p][n].url,
                                        filtered[p][n].date)
           IN \A i \in DOMAIN outcome[r], j \in DOMAIN outcome[q] :
                 KeyAt(r, i) = KeyAt(q, j) =>
                     /\ Cardinality({row \in announcements :
                                        RowKey(s, row) = KeyAt(r, i)}) = 1
                     /\ Cardinality({pn \in {r, q} \X (1..MaxCandidates) :
                                        /\ pn[2] \in DOMAIN outcome[pn[1]]
                                        /\ KeyAt(pn[1], pn[2]) = KeyAt(r, i)
                                        /\ outcome[pn[1]][pn[2]] \in NewOutcomes}) = 1

\* Both runs completed and one of them lost the race for a key.
C6_Witness ==
    \E r, q \in Runs :
        /\ r # q
        /\ Completed(r)
        /\ Completed(q)
        /\ cfg[r].dedupe_strategy = cfg[q].dedupe_strategy
        /\ ~cfg[r].dry_run
        /\ "race_duplicate" \in Range(outcome[q])
        /\ "new_processed" \in Range(outcome[r])

\* C7: a run in which a notifier send failed, at whichever send point, still
\* returns a report with a status and closes its connection.
C7_NotifierNeverPropagates ==
    \A r \in Runs :
        (pc[r] \in Ended /\ notify_failed[r])
        => /\ Returned(r)
           /\ report[r].status \in {"COMPLETED", "FAILED"}
           /\ ~conn_open[r]

\* C8: every run that has created its Run row eventually leaves RUNNING.
C8_RunLeavesRunning ==
    \A r \in Runs :
        (runs_table[r].status = "RUNNING")
            ~> (runs_table[r].status \in {"COMPLETED", "FAILED"})

\* The run crawled through a pagination chain and a failed page, and finished.
C8_Witness ==
    /\ runs_table[CrawlRun].status = "COMPLETED"
    /\ finish_calls[CrawlRun] = 1
    /\ page_turns >= 1
    /\ category_fetch_failed

\* C9: the number of pages marked visited never exceeds max_pages_total.
C9_PagesSeenWithinBudget == Cardinality(seen_pages) <= max_pages_total

\* C10: the pagination chain of a branch fetches at most max_pages_per_category
\* pages; the re-fetch of the branch root is not one of them.
C10_ChainWithinBudget == chain_fetches <= max_pages_per_category

\* A chain used its whole budget of at least two pages.
C10_Witness ==
    /\ crawl_pc = "root"
    /\ max_pages_per_category >= 2
    /\ chain_fetches = max_pages_per_category

\* A list without two equal entries.
NoRepeats(q) == \A i, j \in DOMAIN q : q[i] = q[j] => i = j

\* The position at which an entry first occurs in a list.
FirstSeen(q, e) == Min({i \in DOMAIN q : q[i] = e})

\* C11: a category page whose fetch raises adds no item, leaves the queued
\* branches queued and lets the crawl go on to the branch's root step; the crawl
\* raises only when the fetch of the start page failed; and the items a live
\* crawl returns are exactly those parsed from the pages fetched successfully.
C11_FailedBranchIsolated ==
    /\ [](/\ crawl_pc = "raised" => start_fetch_failed
          /\ (crawl_pc = "done" /\ ~use_test_fixtures)
                => Range(collected_items) = parsed_ok)
    /\ [][failed_roots' # failed_roots
            => /\ raw' = raw
               /\ queue' = queue
               /\ crawl_pc' = "root"]_vars

\* A crawl has returned items although the branch "a" failed, after "b" was
\* visited as well.
C11_Witness ==
    /\ crawl_pc = "done"
    /\ failed_roots = {"a"}
    /\ "b" \in seen_pages
    /\ Len(collected_items) = 2

\* C13: the returned item list has no two equal entries and keeps the first-seen
\* order of the raw items, in live mode and in fixture mode.
C13_ItemsDistinctInOrder ==
    crawl_pc = "done" =>
        /\ NoRepeats(collected_items)
        /\ ~use_test_fixtures =>
              /\ Range(collected_items) = Range(raw)
              /\ \A i, j \in DOMAIN collected_items :
                    i < j => FirstSeen(raw, collected_items[i])
                               < FirstSeen(raw, collected_items[j])

\* The days of the dates of a page that date.fromisoformat accepts.
ValidDays(dates) == {d.day : d \in {x \in dates : x.valid}}

\* C12: once the rule has run on a page whose dates parse, an unordered page
\* (zcpt items) stops the branch iff all its dates, hence its newest, are earlier
\* than earliest_keep, and an ordered page (notices only) stops it iff one of its
\* dates, hence its oldest, is earlier than earliest_keep.
C12_StopRule ==
    pg_should_stop # "none" =>
        /\ ValidDays(pg_zcpt_items) # {} =>
              (pg_should_stop = "stop"
                 <=> \A d \in ValidDays(pg_zcpt_items) : d < pg_earliest_keep)
        /\ (/\ pg_zcpt_items = {}
            /\ pg_notices # {}
            /\ \A x \in pg_notices : x.valid) =>
              (pg_should_stop = "stop"
                 <=> \E d \in ValidDays(pg_notices) : d < pg_earliest_keep)

\* The claim's example: a page with one date after earliest_keep and one before
\* it has stopped the branch as an ordered page.
C12_Witness ==
    /\ pg_should_stop = "stop"
    /\ pg_zcpt_items = {}
    /\ pg_notices = {[valid |-> TRUE, day |-> pg_earliest_keep + 1],
                     [valid |-> TRUE, day |-> pg_earliest_keep - 1]}

\* C14: on a store that has only ever been opened under title_date, an insert
\* returns true unless an earlier insert had the same title and the same date, so
\* two stubs with one title and different dates both return true; on a store
\* only ever opened under title, an insert returns true unless an earlier insert
\* had the same title, and the store keeps one row per title.
C14_KeyIndependence ==
    /\ \A i \in DOMAIN insert_log :
          (insert_log[i].fresh /\ insert_log[i].strategy = "title_date") =>
              (insert_log[i].ok <=>
                  ~\E j \in 1..(i - 1) :
                      /\ insert_log[j].title = insert_log[i].title
                      /\ insert_log[j].date = insert_log[i].date)
    /\ \A i \in DOMAIN insert_log :
          (insert_log[i].fresh /\ insert_log[i].strategy = "title") =>
              (insert_log[i].ok <=>
                  ~\E j \in 1..(i - 1) : insert_log[j].title = insert_log[i].title)
    /\ indexes = {"title"} =>
          \A r1, r2 \in announcements : r1.title = r2.title => r1 = r2

\* Two stubs of one title and different dates were inserted under title_date
\* and both inserts returned true.
C14_Witness ==
    /\ indexes = {"title_date"}
    /\ Len(insert_log) = 2
    /\ insert_log[1].title = insert_log[2].title
    /\ insert_log[1].date # insert_log[2].date
    /\ insert_log[1].ok /\ insert_log[2].ok

\* C15: with no concurrent writer, an insert is rejected exactly when
\* is_duplicate was true for the same title, url and date, whatever strategies
\* the store was opened under before.
C15_RejectedIffDuplicate ==
    \A i \in DOMAIN insert_log : insert_log[i].ok <=> ~insert_log[i].dup

\* The reference date of the filter stage's list.
FilterRef == base_date(flt_normalized, flt_fixtures, flt_today)

\* How often an entry occurs in a list.
Occurrences(q, e) == Cardinality({i \in DOMAIN q : q[i] = e})

\* C16: with N the configured lookback, or 1 when it is below 1, and D the
\* reference date, the filter keeps exactly the entries whose title matches and
\* whose date lies in D-(N-1)..D; what it kept for N is kept for N+1.
C16_LookbackWindow ==
    flt_passes >= 1 =>
        LET N == IF flt_days_lookback >= 1 THEN flt_days_lookback ELSE 1
            Kept(it) == /\ KeywordMatches(it.title)
                        /\ FilterRef - (N - 1) <= it.d
                        /\ it.d <= FilterRef
        IN /\ \A i \in DOMAIN flt_normalized :
                 Occurrences(flt_filtered, flt_normalized[i])
                     = IF Kept(flt_normalized[i])
                       THEN Occurrences(flt_normalized, flt_normalized[i]) ELSE 0
           /\ \A i \in DOMAIN flt_filtered :
                 \E j \in DOMAIN flt_normalized : flt_normalized[j] = flt_filtered[i]
           /\ flt_passes >= 2 => Range(flt_prev) \subseteq Range(flt_filtered)

\* With lookback 2 after a pass with a lookback below 2: the entry at the edge
\* D-1 is kept, it was not kept before, and the entry at D-2 is dropped.
C16_Witness ==
    /\ flt_passes >= 2
    /\ flt_days_lookback = 2
    /\ ~flt_fixtures
    /\ flt_normalized = <<[title |-> "kw", d |-> flt_today - 1],
                          [title |-> "kw", d |-> flt_today - 2]>>
    /\ flt_filtered = <<[title |-> "kw", d |-> flt_today - 1]>>
    /\ flt_prev = <<>>

\* The candidates a run of cap M may touch: all of them when M <= 0, else the
\* first M in plan order.
WithinCap(r) ==
    LET M == cfg[r].max_items_per_run
    IN {filtered[r][i] : i \in {j \in DOMAIN filtered[r] : M <= 0 \/ j <= M}}

\* C17: with cap M > 0 the loop never goes past M iterations and a COMPLETED run
\* has processed min(M, number of candidates); with M <= 0 a COMPLETED run has
\* processed every candidate; no row, no buffered notification and no item error
\* belongs to a candidate beyond the cap.
C17_MaxItemsCap ==
    \A r \in Runs :
        LET M == cfg[r].max_items_per_run
            n == Len(filtered[r])
        IN /\ M > 0 => /\ idx[r] <= M
                       /\ Len(outcome[r]) <= M
                       /\ total_processed[r] <= M
           /\ Completed(r) =>
                 report[r].total_processed = IF M > 0 /\ M < n THEN M ELSE n
           /\ (pc[r] # "idle" /\ ~cfg[r].dry_run) =>
                 \A row \in announcements :
                     \E it \in WithinCap(r) : it.title = row.title /\ it.url = row.url
           /\ \A i \in DOMAIN new_items[r] : new_items[r][i] \in WithinCap(r)

\* A run capped at one item has completed over two candidates, one processed.
C17_Witness ==
    /\ Completed(CrawlRun)
    /\ cfg[CrawlRun].max_items_per_run = 1
    /\ Len(filtered[CrawlRun]) = 2
    /\ report[CrawlRun].total_processed = 1

\* C18: a dry run inserts and updates no row, never enters the insert or the
\* detail stage (no detail fetch, no summarizer) and never calls the notifier,
\* whatever the notify mode and the notifier configuration.
C18_DryRunFrame ==
    \A r \in Runs :
        (pc[r] # "idle" /\ cfg[r].dry_run) =>
            /\ announcements = {}
            /\ pc[r] \notin {"insert", "detail"}
            /\ \A i \in DOMAIN outcome[r] : outcome[r][i] \in {"duplicate", "new_dry"}
            /\ ~cards_sent[r]

\* The positions of the requests in the trace of the HTTP call.
RequestsAt == {i \in DOMAIN http_trace : http_trace[i].method # "sleep"}

C20_GetTextRetries ==
    (http_fn = "get_text" /\ http_retry_count >= 1) =>
        /\ Cardinality(RequestsAt) <= http_retry_count
        /\ \A i \in RequestsAt : http_trace[i].ok => i = Len(http_trace)
        /\ \A i \in DOMAIN http_trace :
              http_trace[i].method = "sleep" =>
                  /\ i > 1 /\ (i - 1) \in RequestsAt
                  /\ i < Len(http_trace) => (i + 1) \in RequestsAt
                  /\ http_outcome # "running" => i < Len(http_trace)
        /\ \A i \in RequestsAt :
              (i + 1) \in DOMAIN http_trace => (i + 1) \notin RequestsAt
        /\ http_outcome = "returned" => http_trace[Len(http_trace)].ok
        /\ http_outcome # "assertion"
        /\ http_outcome = "raised" =>
              /\ Cardinality(RequestsAt) = http_retry_count
              /\ \A i \in RequestsAt : ~http_trace[i].ok
              /\ http_last_err = http_retry_count

\* get_text has raised after retry_count = 2 failed attempts with one sleep
\* between them.
C20_Witness ==
    /\ http_fn = "get_text"
    /\ http_retry_count = 2
    /\ http_outcome = "raised"
    /\ Len(http_trace) = 3
    /\ http_trace[2].method = "sleep"

C22_RowsNeverRemoved ==
    [][\A row \in announcements : \E kept \in announcements' : kept.id = row.id]_vars

C24_RowShapeByStatus ==
    \A row \in announcements :
        /\ row.status = "PROCESSED" =>
               (row.content # NULL /\ row.content # "" /\ row.ai_summary # NULL
                /\ row.ai_summary # Sentinel)
        /\ row.status = "FAILED" =>
               (row.content = "" /\ row.ai_summary = Sentinel)

\* C25: a step that persists the result of a run's current candidate changes
\* no row other than that candidate's own (same title, url and date).
C25_OnlyStubRowChanges ==
    [][\A r \in Runs :
          (pc[r] = "detail" /\ pc'[r] = "loop") =>
              \A row \in announcements :
                  row \notin announcements' =>
                      /\ row.title = CurrentItem(r).title
                      /\ row.url = CurrentItem(r).url
                      /\ row.date = CurrentItem(r).date]_vars

\* The fields of a task that the calls set and get_task returns.
TaskFields(row) ==
    [task_id |-> row.task_id, enabled |-> bool(row.enabled),
     schedule_type |-> row.schedule_type, config |-> json_loads(row.config_json)]

\* C26: after upsert_task get_task returns the task with the enabled flag,
\* schedule type and config given, and every list_tasks result holds the id
\* exactly once; after set_task_enabled of a stored task get_task returns it
\* with the flag given, and the other tasks are as before; after delete_task
\* get_task returns nothing.
C26_TaskTable ==
    [][LET call == tk_last'
           got == get_task(tk_tasks', call.task_id)
       IN /\ call.op = "upsert" =>
                /\ got = {[task_id |-> call.task_id, enabled |-> call.enabled,
                           schedule_type |-> call.schedule_type,
                           config |-> call.config]}
                /\ \A q \in list_tasks(tk_tasks') :
                      Cardinality({i \in DOMAIN q : q[i].task_id = call.task_id}) = 1
                /\ Cardinality(tk_tasks') =
                      Cardinality({row.task_id : row \in tk_tasks \cup tk_tasks'})
          /\ call.op = "set_enabled" =>
                /\ get_task(tk_tasks, call.task_id) # {} =>
                      /\ Cardinality(got) = 1
                      /\ \A t \in got : t.enabled = call.enabled
                /\ \A row \in tk_tasks :
                      row.task_id # call.task_id => row \in tk_tasks'
                /\ {TaskFields(row) : row \in {x \in tk_tasks' : x.task_id # call.task_id}}
                      = {TaskFields(row) : row \in {x \in tk_tasks : x.task_id # call.task_id}}
          /\ call.op = "delete" => got = {}]_vars

\* Task t1 was stored twice with different fields, the second call being the
\* last one, while t2 is stored too.
C26_Witness ==
    /\ tk_last.op = "upsert"
    /\ tk_last.task_id = "t1"
    /\ \E row \in tk_tasks : row.task_id = "t1" /\ row.created_at < row.updated_at
    /\ \E row \in tk_tasks : row.task_id = "t2"

\* C27: with adaptive throttling on, every iteration that brings total_processed
\* to a multiple of batch_size raises the delay by the increment, up to the
\* maximum, however the iteration ended.
C27_ThrottleEveryBatch ==
    [][(/\ thr_cfg.adaptive
        /\ thr_cfg.batch_size > 0
        /\ thr_total_processed' = thr_total_processed + 1
        /\ thr_total_processed' % thr_cfg.batch_size = 0)
       => thr_current_delay' =
             Min({thr_cfg.max_loop_delay_seconds,
                  thr_current_delay + Max({thr_cfg.delay_increment_seconds, 0})})]_vars

\* C28: the delay in force is never negative and never above
\* max_loop_delay_seconds, no iteration lowers it, and without adaptive
\* throttling it stays the configured loop delay.
C28_DelayBounds ==
    /\ [](/\ thr_current_delay >= 0
          /\ thr_current_delay <= thr_cfg.max_loop_delay_seconds
          /\ ~thr_cfg.adaptive =>
                 thr_current_delay = Max({thr_cfg.loop_delay_seconds, 0}))
    /\ [][thr_current_delay' >= thr_current_delay]_vars

\* C29: the crawl, once started, reaches its end (it returns or raises); every
\* pop of the queue loop either discards an entry that was visited already or
\* marks at least one new URL visited; and at most max_pages_total - 1 queue
\* entries are taken up as branches.
C29_CrawlTerminates ==
    /\ (crawl_pc = "start") ~> (crawl_pc \in {"done", "raised"})
    /\ [][(crawl_pc = "queue" /\ queue' # queue /\ crawl_pc' # "done") =>
             \/ /\ Head(queue) \in seen_pages
                /\ queue' = Tail(queue)
                /\ seen_pages' = seen_pages
             \/ /\ seen_pages \subseteq seen_pages'
                /\ seen_pages' # seen_pages]_vars
    /\ [](branches_explored <= max_pages_total - 1)

\* The crawl has returned after taking up two branches, the most that
\* max_pages_total = 3 allows, neither of them with a pagination turn.
C29_Witness ==
    /\ crawl_pc = "done"
    /\ max_pages_total = 3
    /\ branches_explored = 2
    /\ page_turns = 0

\* The calls of http.get_text made for a URL, whatever the purpose.
CallsOf(u) ==
    get_text_calls[u, "start"] + get_text_calls[u, "chain"] + get_text_calls[u, "root"]

\* C30: for every URL, http.get_text is called at most once as a page of a
\* pagination chain and at most once more as the re-fetch of a branch root, so
\* at most twice; the start URL is fetched once, as the start page, and never
\* again.
C30_FetchesPerUrl ==
    \A u \in CrawlUrls :
        /\ get_text_calls[u, "chain"] <= 1
        /\ get_text_calls[u, "root"] <= 1
        /\ CallsOf(u) <= 2
        /\ u # StartUrl => get_text_calls[u, "start"] = 0
        /\ u = StartUrl =>
              CallsOf(u) = (IF crawl_pc = "start" THEN 0 ELSE 1)

\* The crawl has returned after fetching branch root a twice (chain and
\* re-fetch), page b once by pagination, and meeting a visited next page.
C30_Witness ==
    /\ crawl_pc = "done"
    /\ CallsOf("a") = 2
    /\ get_text_calls["b", "chain"] = 1
    /\ get_text_calls["b", "root"] = 0
    /\ page_turns = 1
    /\ CallsOf(StartUrl) = 1

\* The number of pagination-chain calls of http.get_text made for the URLs of S.
RECURSIVE ChainCalls(_)
ChainCalls(S) ==
    IF S = {} THEN 0
    ELSE LET u == CHOOSE x \in S : TRUE
         IN get_text_calls[u, "chain"] + ChainCalls(S \ {u})

\* C31: when the crawl has returned, every URL in seen_pages has been requested
\* at least once, and page_turns is the number of next pages requested: the
\* chain requests other than the first one of each branch.
C31_SeenPagesWereFetched ==
    crawl_pc = "done" =>
        /\ \A u \in seen_pages : CallsOf(u) >= 1
        /\ page_turns = ChainCalls(CrawlUrls) - branches_explored

\* C32: in a non-dry run, between two candidates of the ingest loop total_new is
\* the number of stub rows the run's inserts have added; a step lowers total_new
\* of a run only as the race downgrade (a rejected insert, which raises
\* total_duplicate); no step lowers total_processed or total_duplicate.
C32_NewCountsStubs ==
    /\ [](\A r \in Runs :
             (pc[r] = "loop" /\ ~cfg[r].dry_run) => total_new[r] = stubs_inserted[r])
    /\ [][\A r \in Runs :
             /\ total_new'[r] < total_new[r] =>
                   /\ pc[r] = "insert"
                   /\ stubs_inserted'[r] = stubs_inserted[r]
                   /\ total_new'[r] = total_new[r] - 1
                   /\ total_duplicate'[r] = total_duplicate[r] + 1
             /\ total_processed'[r] >= total_processed[r]
             /\ total_duplicate'[r] >= total_duplicate[r]]_vars

\* A non-dry run is between two candidates after one stub of its own and one
\* race downgrade.
C32_Witness ==
    \E r \in Runs :
        /\ pc[r] = "loop"
        /\ ~cfg[r].dry_run
        /\ "race_duplicate" \in Range(outcome[r])
        /\ stubs_inserted[r] = 1
        /\ total_new[r] = 1

\* C33: a dry run q on the store as first opened, followed by a non-dry run r of
\* the same strategy and item cap over the same filtered list (the dry run
\* having left the store as it was), both completed: the two reports carry the
\* same total_processed, total_new and total_duplicate.
C33_DryRunReportsAsRealRun ==
    \A q, r \in Runs :
        ( /\ prior_done[q] = {}
          /\ q \in prior_done[r]
          /\ Completed(q)
          /\ Completed(r)
          /\ cfg[q].dry_run
          /\ ~cfg[r].dry_run
          /\ cfg[q].dedupe_strategy = cfg[r].dedupe_strategy
          /\ cfg[q].max_items_per_run = cfg[r].max_items_per_run
          /\ filtered[q] = filtered[r] )
        => /\ report[q].total_processed = report[r].total_processed
           /\ report[q].total_new = report[r].total_new
           /\ report[q].total_duplicate = report[r].total_duplicate

\* C34: when a non-dry run, the only writer of its store, has returned
\* COMPLETED, the rows of the store are the stubs it inserted and each has
\* status PROCESSED or FAILED.
C34_NoStubLeftNew ==
    \A r \in Runs :
        (Completed(r) /\ ~cfg[r].dry_run) =>
            /\ Cardinality(announcements) = stubs_inserted[r]
            /\ \A row \in announcements : row.status \in {"PROCESSED", "FAILED"}

\* A non-dry run completed after inserting two stubs, one of which failed.
C34_Witness ==
    \E r \in Runs :
        /\ Completed(r)
        /\ ~cfg[r].dry_run
        /\ stubs_inserted[r] = 2
        /\ \E row \in announcements : row.status = "FAILED"
        /\ \E row \in announcements : row.status = "PROCESSED"

\* C35: the Run row of a killed run has status RUNNING in every state after
\* the kill, whatever the other run does.
C35_KilledRunStaysRunning ==
    \A r \in Runs : pc[r] = "killed" => runs_table[r].status = "RUNNING"

\* One run was killed and the other has since called finish_run and returned.
C35_Witness ==
    \E r, q \in Runs :
        /\ pc[r] = "killed"
        /\ pc[q] = "done"
        /\ finish_calls[q] = 1
        /\ r \notin prior_done[q]
        /\ runs_table[q].status = "COMPLETED"

\* C36: whatever the raw dates, the date handling of the filter stage does not
\* raise, in live mode and in fixture mode, and no text that is not a calendar
\* date is among the dates kept.
C36_BadDatesNeverFail ==
    /\ nd_result.outcome # "raised"
    /\ \A i \in DOMAIN nd_result.kept : fromisoformat_ok(nd_result.kept[i])

\* C37: a call of get_text or post_json that reports failure has issued at
\* least one request, and what it raises is the error of one of its attempts.
C37_FailureAfterARequest ==
    http_outcome \notin {"running", "returned"} =>
        /\ RequestsAt # {}
        /\ http_outcome = "raised"
        /\ http_last_err \in 1..http_retry_count

\* C38: for one task at most one run subprocess is alive at any time, and a
\* trigger that arrives while the task is running starts no process and leaves
\* the running flag, the status and the process handle as they were.
C38_OneProcessPerTask ==
    /\ [](/\ Cardinality(active_procs) <= 1
          /\ active_procs # {} => rt_running /\ rt_last_status = "RUNNING"
          /\ rt_proc # NoProc => active_procs \subseteq {rt_proc})
    /\ [][(rt_running /\ \E j \in Jobs : RunTaskJobEnter(j)) =>
             UNCHANGED <<rt_running, rt_last_status, rt_proc, active_procs>>]_vars

\* After an earlier run of the task had ended, a trigger started a process and
\* the next trigger was skipped while that process was alive.
C38_Witness ==
    /\ job_pc["j1"] = "skipped"
    /\ job_pc["j2"] = "reading"
    /\ active_procs = {"j2"}
    /\ rt_proc = "j2"
    /\ Len(rt_lines) >= 4

\* C39: the log buffer of a task runtime and of a live run never holds more
\* lines than the length it is cut to.
C39_BufferBounded ==
    /\ Len(rt_lines) <= MaxLines
    /\ Len(live_lines) <= MaxLines

\* C40: the client receives the lines owed to it once each and in order, and
\* has received all of them when it receives the end event.
C40_StreamComplete ==
    /\ \A i \in DOMAIN gen_out : i <= Len(gen_owed) /\ gen_out[i] = gen_owed[i]
    /\ gen_pc = "ended" => gen_out = gen_owed
====
